---- MODULE Spec2Model ----
(***************************************************************************)
(* A model of the PDF reader of this repository: the construction of the   *)
(* cross-reference table from a chain of Prev sections, the encryption     *)
(* handshake of NewReaderEncrypted, the resolver and the Value facade.     *)
(***************************************************************************)
EXTENDS Integers, Sequences, FiniteSets, TLC

VARIABLES
    file,     \* the byte source, as the parser sees it (xref format, trailer, objects)
    mention,  \* per object id, what the newest xref section read so far says of it
    pc,       \* position of the running public call
    table,    \* readXref: the table under construction ([st, tab, size])
    xref,     \* Reader.xref: the cross-reference table, entry of id x at xref[x+1]
    prevoff,  \* readXrefTable/readXrefStream: index of the section Prev points at, 0 when nil
    key,      \* Reader.key: <<>> while unset
    useAES,   \* Reader.useAES
    err,      \* the error value of the running call ("nil" when none)
    pwcalls,  \* the passwords the password callback has returned so far
    tried,    \* the passwords initEncrypt has been called with so far
    cur,      \* the Value the caller holds (result of the last Value-returning call)
    out,      \* the result of the last scalar accessor
    hist,     \* the record of the first call of resolve on the request Probe
    png,      \* a pngUpReader, the bytes of the reader below it and the bytes it has returned
    pageContent, \* the locals of a call of Page.Content: g, gstack, text and paths
    font,     \* a Font: the Value it was built from and its width grabber and encoding
    pdfbuffer \* a pdfbuffer: the bytes it reads, its place in them and the last token

vars == <<file, mention, pc, table, xref, prevoff, key, useAES, err, pwcalls, tried, cur, out, hist,
          png, pageContent, font, pdfbuffer>>

----------------------------------------------------------------------------
(* Bounds of the model. *)

MaxSections == 2    \* xref sections in a Prev chain
MaxSubLen == 2      \* entries of one xref subsection
MaxStart == 1       \* largest first id of a subsection
MaxOff == 2         \* largest byte offset (and owner id) an xref entry names
MaxGen == 1         \* largest generation number an xref entry names

MaxId == MaxStart + MaxSubLen - 1

\* calls and loop rounds one resolve may make before it is taken not to end;
\* a resolve that ends visits every xref entry at most once
MaxFuel == 2 * (MaxId + 2)

----------------------------------------------------------------------------
(* Raw objects and pointers. *)

Ptr(id, gen) == [id |-> id, gen |-> gen]

ZeroPtr == Ptr(0, 0)

FreePtr == Ptr(0, 65535)

ZeroXref == [ptr |-> ZeroPtr, inStream |-> FALSE, stream |-> ZeroPtr, offset |-> 0]

uint16(n) == n % 65536

\* ids and lengths of the model are non-negative and far below 2^32, where
\* the conversion to uint32 keeps the number
uint32(n) == n

ZeroFill(n) == [i \in 1..n |-> ZeroXref]

\* the slice growth of readXrefTableData: the table reaches index x, new slots are zero
GrowTable(tab, x) ==
    IF Len(tab) > x THEN tab
    ELSE tab \o ZeroFill(x + 1 - Len(tab))

SetAt(tab, x, e) == [tab EXCEPT ![x + 1] = e]

----------------------------------------------------------------------------
(* Classic xref tables. *)

\* the test readXrefTableData makes before it writes a slot: the slot is
\* taken as empty when its offset is 0
TableSlotEmpty(e) == e.offset = 0

\* one entry line "off gen alloc" of a subsection, for object id x
TableEntryStore(tab, x, ent) ==
    IF ent.alloc = "n" /\ TableSlotEmpty(tab[x + 1])
    THEN SetAt(tab, x, [ptr |-> Ptr(uint32(x), uint16(ent.gen)), inStream |-> FALSE,
                          stream |-> ZeroPtr, offset |-> ent.off])
    ELSE tab

RECURSIVE TableSubsection(_, _, _, _)
TableSubsection(tab, start, ents, i) ==
    IF i > Len(ents) THEN tab
    ELSE LET x == start + (i - 1)
             grown == GrowTable(tab, x)
         IN TableSubsection(TableEntryStore(grown, x, ents[i]), start, ents, i + 1)

RECURSIVE readXrefTableData(_, _, _)
readXrefTableData(tab, subs, s) ==
    IF s > Len(subs) THEN tab
    ELSE readXrefTableData(TableSubsection(tab, subs[s].start, subs[s].ents, 1), subs, s + 1)

\* the final truncation of readXrefTable by the Size of the newest trailer
TruncateBySize(tab, size) ==
    IF size < Len(tab) THEN SubSeq(tab, 1, size) ELSE tab

----------------------------------------------------------------------------
(* Xref streams. *)

\* the test readXrefStreamData makes before it writes a slot: the slot is
\* taken as already set when its ptr is not the zero pointer
StreamSlotSet(e) == e.ptr # ZeroPtr

\* one record (v1, v2, v3) of an xref stream, for object id x
StreamEntryStore(tab, x, v1, v2, v3) ==
    IF StreamSlotSet(tab[x + 1]) THEN tab
    ELSE CASE v1 = 0 -> SetAt(tab, x, [ptr |-> FreePtr, inStream |-> FALSE,
                                         stream |-> ZeroPtr, offset |-> 0])
           [] v1 = 1 -> SetAt(tab, x, [ptr |-> Ptr(uint32(x), uint16(v3)), inStream |-> FALSE,
                                         stream |-> ZeroPtr, offset |-> v2])
           [] v1 = 2 -> SetAt(tab, x, [ptr |-> Ptr(uint32(x), 0), inStream |-> TRUE,
                                         stream |-> Ptr(uint32(v2), 0), offset |-> v3])
           [] OTHER -> tab

\* the first field of a record: a missing W[0] makes every record type 1
FieldType(w0, rec) == IF w0 = 0 THEN 1 ELSE rec.t

\* One record of wt bytes is read from the stream data, of which res.avail
\* bytes are left (io.ReadFull fails on less). The stream reader then grows
\* the table with append alone and indexes it: whether index x exists
\* afterwards depends on the capacities the runtime hands out (grows), so
\* both outcomes are kept.
RECURSIVE StreamIndexRange(_, _, _, _, _, _, _)
StreamIndexRange(res, start, recs, i, w0, wt, grows) ==
    IF res.st # "ok" \/ i > Len(recs) THEN res
    ELSE IF res.avail < wt THEN [res EXCEPT !.st = "err"]
    ELSE LET x == start + (i - 1)
         IN IF Len(res.tab) <= x /\ ~grows
            THEN [res EXCEPT !.st = "panic"]
            ELSE StreamIndexRange(
                   [st |-> "ok",
                    tab |-> StreamEntryStore(GrowTable(res.tab, x), x,
                                             FieldType(w0, recs[i]), recs[i].f2, recs[i].f3),
                    avail |-> res.avail - wt],
                   start, recs, i + 1, w0, wt, grows)

RECURSIVE readXrefStreamData(_, _, _, _, _, _)
readXrefStreamData(res, subs, s, w0, wt, grows) ==
    IF res.st # "ok" \/ s > Len(subs) THEN res
    ELSE readXrefStreamData(StreamIndexRange(res, subs[s].start, subs[s].ents, 1, w0, wt, grows),
                            subs, s + 1, w0, wt, grows)

----------------------------------------------------------------------------
(* The xref sections a file can hold. *)

InlineRecs == {[t |-> 1, f2 |-> o, f3 |-> 0] : o \in 1..MaxOff}

\* a section: the Size of its trailer (or stream header), one subsection and,
\* in an xref stream, W[0] and the bytes of one record, W[0] + W[1] + W[2]
Sections(ents, w0, wt) ==
    [size : (MaxId)..(MaxId + 1), w0 : {w0}, wt : {wt},
     subs : {<<sub>> : sub \in [start : 0..MaxStart,
                                ents : UNION {[1..k -> ents] : k \in 1..MaxSubLen}]}]

\* entry lines "0000000000 00001 f" and "off gen n"
TableSections ==
    Sections({[off |-> 0, gen |-> 1, alloc |-> "f"]}
             \cup {[off |-> o, gen |-> g, alloc |-> "n"] : o \in 1..MaxOff, g \in 0..MaxGen},
             1, 0)

\* W = [1 1 1] with records of type 0, 1, 2 and 3; W = [0 1 1], where every
\* record is read as type 1; W = [0 0 0], where every field is read as 0
StreamSections ==
    Sections({[t |-> 0, f2 |-> 0, f3 |-> 1], [t |-> 3, f2 |-> 0, f3 |-> 0]}
             \cup InlineRecs
             \cup {[t |-> 2, f2 |-> o, f3 |-> 0] : o \in 1..MaxOff},
             1, 3)
    \cup Sections(InlineRecs, 0, 2)
    \cup Sections({[t |-> 0, f2 |-> 0, f3 |-> 0]}, 0, 0)

----------------------------------------------------------------------------
(* What a section says of an id, and what a table entry means to resolve. *)

Variant(v, a, b) == [v |-> v, a |-> a, b |-> b]

NoMention == Variant("none", 0, 0)

\* resolve reads an entry as free when it is not inStream and has offset 0
EntryVariant(e) ==
    IF e.inStream THEN Variant("compressed", e.stream.id, e.offset)
    ELSE IF e.offset = 0 THEN Variant("free", 0, 0)
    ELSE Variant("inline", e.offset, e.ptr.gen)

TableEntVariant(ent) ==
    IF ent.alloc = "n" THEN Variant("inline", ent.off, ent.gen) ELSE Variant("free", 0, 0)

StreamRecVariant(w0, rec) ==
    LET t == FieldType(w0, rec)
    IN CASE t = 0 -> Variant("free", 0, 0)
         [] t = 1 -> IF rec.f2 = 0 THEN Variant("free", 0, 0)
                     ELSE Variant("inline", rec.f2, rec.f3)
         [] t = 2 -> Variant("compressed", rec.f2, rec.f3)
         [] OTHER -> NoMention

SectionVariant(fmt, sec, x) ==
    LET sub == sec.subs[1]
        i == x - sub.start + 1
    IN IF i \in 1..Len(sub.ents)
       THEN IF fmt = "table" THEN TableEntVariant(sub.ents[i])
            ELSE StreamRecVariant(sec.w0, sub.ents[i])
       ELSE NoMention

\* an older section is recorded only for the ids no newer section mentioned
Mentioned(old, fmt, sec) ==
    [x \in DOMAIN old |-> IF old[x] # NoMention THEN old[x] ELSE SectionVariant(fmt, sec, x)]

----------------------------------------------------------------------------
(* Raw objects (pdfobject). Every kind has its own field names. *)

Names == {"Type", "Size", "N", "First", "Extends", "Length", "Filter", "DecodeParms", "Encrypt", "ID",
          "Root", "A", "V", "R", "O", "U", "P", "CF", "StmF", "StrF", "StdCF", "AuthEvent", "CFM",
          "Pages", "Count", "Kids", "Parent", "MediaBox", "CropBox", "Resources", "Predictor",
          "Columns", "Outlines", "Title", "Next"}

Nil == [k |-> "null"]

Absent == [k |-> "absent"]      \* no such key in a Go map

IntObj(n) == [k |-> "int", n |-> n]

NameObj(nm) == [k |-> "name", nm |-> nm]

KeywordObj(w) == [k |-> "keyword", w |-> w]

Ref(id, gen) == [k |-> "ref", p |-> Ptr(id, gen)]

ObjDef(p, obj) == [k |-> "objdef", dp |-> p, obj |-> obj]

NoKey == [set |-> FALSE, pw |-> <<>>, len |-> 0]

\* the bytes of an MD5 digest, which h.Sum(nil) returns whole
md5Size == 16

\* the key of one object: MD5 over file key, id and generation (and "sAlT")
cryptKey(k, aes, ptr) == [fk |-> k, p |-> ptr, aes |-> aes, len |-> md5Size]

NoObjKey == cryptKey(NoKey, FALSE, ZeroPtr)

\* the bytes of a string: a text of n bytes, or the user check computed from
\* a file key (uk) by the algorithm of revision 2 or of revisions 3 and 4 (r3)
Text(t, n) == [t |-> t, n |-> n, uk |-> NoKey, r3 |-> FALSE]

UserCheck(uk, r3) == [t |-> "U", n |-> IF r3 THEN 16 ELSE 32, uk |-> uk, r3 |-> r3]

EmptyString == Text("", 0)

\* a string and the RC4 layer that still lies over its bytes (NoObjKey: none)
StrObj(str, ck) == [k |-> "string", s |-> str, ck |-> ck]

PlainStr(t, n) == StrObj(Text(t, n), NoObjKey)

\* a dictionary: a map over Names, Absent where the key is missing
DictMap(rec) == [n \in Names |-> IF n \in DOMAIN rec THEN rec[n] ELSE Absent]

DictObj(rec) == [k |-> "dict", m |-> DictMap(rec)]

ArrayObj(a) == [k |-> "array", a |-> a]

StreamObj(rec, ptr, off) == [k |-> "stream", hdr |-> DictMap(rec), sptr |-> ptr, soff |-> off]

\* x[key] of a Go map: nil for a missing key
MapGet(m, nm) == IF m[nm] = Absent THEN Nil ELSE m[nm]

----------------------------------------------------------------------------
(* Value: (reader, parent pointer, raw object); the zero Value is Null. *)

Value(r, ptr, data) == [r |-> r, ptr |-> ptr, data |-> data]

ZeroValue == Value(FALSE, ZeroPtr, Nil)

Kind(v) ==
    CASE v.data.k = "bool" -> "Bool"
      [] v.data.k = "int" -> "Integer"
      [] v.data.k = "real" -> "Real"
      [] v.data.k = "string" -> "String"
      [] v.data.k = "name" -> "Name"
      [] v.data.k = "dict" -> "Dict"
      [] v.data.k = "array" -> "Array"
      [] v.data.k = "stream" -> "Stream"
      [] OTHER -> "Null"

\* results of calls: st is "ok", "err" (an error value e is returned),
\* "panic" (the call does not return) or "diverge" (the call does not end)
Ok(v) == [st |-> "ok", e |-> "nil", v |-> v]

Err(e) == [st |-> "err", e |-> e, v |-> ZeroValue]

Panic(e) == [st |-> "panic", e |-> e, v |-> ZeroValue]

Diverge == [st |-> "diverge", e |-> "nil", v |-> ZeroValue]

----------------------------------------------------------------------------
(* The parser's view of the file: readObject at an offset. *)

\* RC4 is an XOR: the same key twice leaves the plain bytes
XorLayer(ck, k2) ==
    IF ck = NoObjKey THEN k2
    ELSE IF ck = k2 THEN NoObjKey
    ELSE cryptKey(NoKey, TRUE, FreePtr)

RECURSIVE HasString(_)
HasString(obj) ==
    CASE obj.k = "string" -> TRUE
      [] obj.k = "array" -> \E i \in DOMAIN obj.a : HasString(obj.a[i])
      [] obj.k = "dict" -> \E n \in Names : HasString(obj.m[n])
      [] obj.k = "stream" -> \E n \in Names : HasString(obj.hdr[n])
      [] obj.k = "objdef" -> HasString(obj.obj)
      [] OTHER -> FALSE

\* string tokens read under an object definition are decrypted with the
\* key of that definition (b.objptr)
RECURSIVE decryptStrings(_, _, _)
decryptStrings(obj, fk, ptr) ==
    CASE obj.k = "string" -> StrObj(obj.s, XorLayer(obj.ck, cryptKey(fk, FALSE, ptr)))
      [] obj.k = "array" -> ArrayObj([i \in DOMAIN obj.a |-> decryptStrings(obj.a[i], fk, ptr)])
      [] obj.k = "dict" -> [obj EXCEPT !.m = [n \in Names |-> decryptStrings(obj.m[n], fk, ptr)]]
      [] obj.k = "stream" ->
            [obj EXCEPT !.hdr = [n \in Names |-> decryptStrings(obj.hdr[n], fk, ptr)]]
      [] obj.k = "objdef" -> ObjDef(obj.dp, decryptStrings(obj.obj, fk, obj.dp))
      [] OTHER -> obj

\* readObject on a buffer opened at offset off with b.key = fk, b.useAES = aes:
\* [st, obj]; decryptString panics under AES
readObject(objs, off, fk, aes) ==
    LET raw == IF off \in DOMAIN objs THEN objs[off] ELSE KeywordObj("EOF")
        crypt == fk.set /\ raw.k = "objdef" /\ raw.dp.id # 0 /\ HasString(raw)
    IN IF raw.k = "keyword" THEN [st |-> "panic", obj |-> Nil]
       ELSE IF crypt /\ aes THEN [st |-> "panic", obj |-> Nil]
       ELSE IF crypt THEN [st |-> "ok", obj |-> decryptStrings(raw, fk, ZeroPtr)]
       ELSE [st |-> "ok", obj |-> raw]

----------------------------------------------------------------------------
(* The resolver and the Value facade. *)

PKey(nm) == [pk |-> "key", nm |-> nm, i |-> 0]

NineKinds == {"null", "bool", "int", "real", "name", "dict", "array", "stream", "string"}

\* a type switch that lets every raw object through
WrapAny(parent, x) == Ok(Value(TRUE, parent, x))

\* the type switch of resolve on a raw object that is not a reference
Wrap(parent, x) ==
    IF x.k \in NineKinds THEN Ok(Value(TRUE, parent, x)) ELSE Err("ErrUnexpectedValueType")

\* the bound test off by one
OutOfBoundsStrict(id, tab) == id > uint32(Len(tab))

\* the bound test of resolve on the id of a reference
OutOfBounds(id, tab) == id >= uint32(Len(tab))

\* the content of a stream as the object-stream search reads it: the pairs
\* (id, offset) of the prefix and the objects of the body, by position
EmptyContent == [len |-> 0, pairs |-> <<>>, body |-> <<>>]

RECURSIVE resolve(_, _, _)
RECURSIVE Key(_, _, _)
RECURSIVE Index(_, _, _)
RECURSIVE DoWalkChildren(_, _, _, _)
RECURSIVE Search(_, _, _)

\* the path elements DoWalkChildren applies: all but the last
WalkSteps(path) == Len(path) - 1

\* the rest of one round of DoWalkChildren, step being what Key or Index returned
WalkStep(step, path, i, fuel) ==
    IF step.st # "ok" THEN step ELSE DoWalkChildren(step.v, path, i + 1, fuel)

DoWalkChildren(v, path, i, fuel) ==
    IF i > WalkSteps(path) THEN Ok(v)
    ELSE IF path[i].pk = "key" THEN WalkStep(Key(v, path[i].nm, fuel), path, i, fuel)
    ELSE WalkStep(Index(v, path[i].i, fuel), path, i, fuel)

Walk(v, path, fuel) == IF Len(path) = 0 THEN Ok(v) ELSE DoWalkChildren(v, path, 1, fuel)

\* Int asserts the Go type int, which no parsed object has (integers are int64)
AsInt(w) ==
    IF w.st # "ok" THEN [st |-> w.st, e |-> w.e, n |-> 0]
    ELSE [st |-> "err", e |-> "Could not cast into int64", n |-> 0]

ValueInt(v, path, fuel) == AsInt(Walk(v, path, fuel))

AsInt64(w) ==
    IF w.st # "ok" THEN [st |-> w.st, e |-> w.e, n |-> 0]
    ELSE IF w.v.data.k = "int" THEN [st |-> "ok", e |-> "nil", n |-> w.v.data.n]
    ELSE [st |-> "err", e |-> "Could not cast into int64", n |-> 0]

Int64(v, path, fuel) == AsInt64(Walk(v, path, fuel))

AsName(w) ==
    IF w.st # "ok" THEN [st |-> w.st, e |-> w.e, s |-> ""]
    ELSE IF w.v.data.k = "name" THEN [st |-> "ok", e |-> "nil", s |-> w.v.data.nm]
    ELSE [st |-> "err", e |-> "Object is not a valid name", s |-> ""]

Name(v, path, fuel) == AsName(Walk(v, path, fuel))

Key(v, nm, fuel) ==
    CASE v.data.k = "dict" -> resolve(v.ptr, MapGet(v.data.m, nm), fuel)
      [] v.data.k = "stream" -> resolve(v.ptr, MapGet(v.data.hdr, nm), fuel)
      [] OTHER -> Err("ErrNotAValidStream")

\* Index returning a null Value and no error for an index it does not have
IndexSilent(v, i, fuel) ==
    IF v.data.k = "array" /\ i >= 0 /\ i < Len(v.data.a)
    THEN resolve(v.ptr, v.data.a[i + 1], fuel)
    ELSE Ok(ZeroValue)

Index(v, i, fuel) ==
    IF v.data.k = "array" /\ i >= 0 /\ i < Len(v.data.a)
    THEN resolve(v.ptr, v.data.a[i + 1], fuel)
    ELSE Err("ErrNotAValidStream")

Len_(v) == IF v.data.k = "array" THEN Len(v.data.a) ELSE 0

\* the length of the section reader Value.Reader opens on the data of v
ReaderLength(v, fuel) == Int64(v, <<PKey("Length")>>, fuel).n

\* the bytes [offset, offset+Length) of a stream: all of its content when
\* Length covers it, none of the objects otherwise
StreamBytes(v, length) ==
    LET full == IF v.data.k = "stream" /\ v.data.soff \in DOMAIN file.streams
                THEN file.streams[v.data.soff] ELSE EmptyContent
    IN IF length >= full.len THEN full ELSE EmptyContent

\* the filters applied to the bytes: a Filter of another kind than Null, Name
\* or Array panics
Filtered(filter, bytes) ==
    IF filter.st \in {"panic", "diverge"} THEN [st |-> filter.st, c |-> EmptyContent]
    ELSE IF Kind(filter.v) \notin {"Null", "Name", "Array"}
         THEN [st |-> "panic", c |-> EmptyContent]
    ELSE [st |-> "ok", c |-> bytes]

\* Value.Reader as far as the object-stream search needs it
StreamContent(v, fuel) == Filtered(Key(v, "Filter", fuel), StreamBytes(v, ReaderLength(v, fuel)))

\* the position of the first pair of the prefix, among the first n, that names id
RECURSIVE FindPair(_, _, _, _)
FindPair(pairs, n, id, i) ==
    IF i > n THEN 0
    ELSE LET pid == IF i <= Len(pairs) THEN pairs[i].id ELSE 0
         IN IF uint32(pid) = id THEN i ELSE FindPair(pairs, n, id, i + 1)

\* the object the prefix pair at position hit points at
ObjectAt(content, first, hit) ==
    LET off == first + (IF hit <= Len(content.pairs) THEN content.pairs[hit].off ELSE 0)
    IN IF off + 1 \in DOMAIN content.body THEN content.body[off + 1] ELSE KeywordObj("EOF")

\* one round of the Search loop on the object stream strm, given its Type, N,
\* First, content and Extends
SearchRound(ptr, fuel, type, n, first, content, ext) ==
    IF type.s # "ObjStm" THEN [st |-> "panic", e |-> "not an object stream", obj |-> Nil]
    ELSE IF first.st # "ok" THEN [st |-> "panic", e |-> "missing First", obj |-> Nil]
    ELSE IF content.st # "ok" THEN [st |-> content.st, e |-> "nil", obj |-> Nil]
    ELSE IF FindPair(content.c.pairs, n.n, ptr.id, 1) # 0
         THEN [st |-> "ok", e |-> "nil",
               obj |-> ObjectAt(content.c, first.n, FindPair(content.c.pairs, n.n, ptr.id, 1))]
    ELSE IF ext.st = "diverge" THEN [st |-> "diverge", e |-> "nil", obj |-> Nil]
    ELSE IF ext.st # "ok" THEN [st |-> "panic", e |-> "error reading stream", obj |-> Nil]
    ELSE IF Kind(ext.v) # "Stream"
         THEN [st |-> "panic", e |-> "cannot find object in stream", obj |-> Nil]
    ELSE Search(ext.v, ptr, fuel)

\* the Search loop of resolve over an object stream and its Extends chain;
\* the result is the raw object found ([st, e, obj])
Search(strm, ptr, fuel) ==
    IF fuel = 0 THEN [st |-> "diverge", e |-> "nil", obj |-> Nil]
    ELSE IF Kind(strm) # "Stream" THEN [st |-> "err", e |-> "ErrNotAStream", obj |-> Nil]
    ELSE SearchRound(ptr, fuel - 1,
                     Name(strm, <<PKey("Type")>>, fuel - 1),
                     ValueInt(strm, <<PKey("N")>>, fuel - 1),
                     Int64(strm, <<PKey("First")>>, fuel - 1),
                     StreamContent(strm, fuel - 1),
                     Key(strm, "Extends", fuel - 1))

\* resolve on what the search of a compressed entry found
Found(found, ptr) ==
    CASE found.st = "ok" -> Wrap(ptr, found.obj)
      [] found.st = "err" -> Err(found.e)
      [] found.st = "panic" -> Panic(found.e)
      [] OTHER -> Diverge

\* the compressed branch of resolve, strm being the resolved owner
InStream(strm, ptr, fuel) ==
    IF strm.st # "ok" THEN strm ELSE Found(Search(strm.v, ptr, fuel), ptr)

\* the inline branch returning the object of the definition as it is read
InlineUnchecked(rd, ptr) ==
    IF rd.st # "ok" THEN Panic("readObject")
    ELSE IF rd.obj.k # "objdef" THEN Panic("found instead of objdef")
    ELSE IF rd.obj.dp # ptr THEN Panic("found other object")
    ELSE Ok(Value(TRUE, ptr, rd.obj.obj))

\* the inline branch of resolve, rd being what readObject returned
Inline(rd, ptr) ==
    IF rd.st # "ok" THEN Panic("readObject")
    ELSE IF rd.obj.k # "objdef" THEN Panic("found instead of objdef")
    ELSE IF rd.obj.dp # ptr THEN Panic("found other object")
    ELSE Wrap(ptr, rd.obj.obj)

\* resolve on the cross-reference entry of a reference within bounds
Entry(parent, ent, ptr, fuel) ==
    IF ent.ptr # ptr \/ (~ent.inStream /\ ent.offset = 0) THEN Ok(ZeroValue)
    ELSE IF ent.inStream
         THEN InStream(resolve(parent, [k |-> "ref", p |-> ent.stream], fuel), ptr, fuel)
    ELSE Inline(readObject(file.objs, ent.offset, key, useAES), ptr)

resolve(parent, x, fuel) ==
    IF fuel = 0 THEN Diverge
    ELSE IF x.k # "ref" THEN Wrap(parent, x)
    ELSE IF OutOfBounds(x.p.id, xref) THEN Err("ErrObjectOutOfBounds")
    ELSE IF x.p.id + 1 \notin DOMAIN xref THEN Panic("index out of range")
    ELSE Entry(parent, xref[x.p.id + 1], x.p, fuel - 1)

----------------------------------------------------------------------------
(* The encryption handshake. *)

passwordPad ==
    << 40, 191, 78, 94, 78, 117, 138, 65, 100, 0, 78, 86, 255, 250, 1, 8,
       46, 46, 0, 182, 208, 104, 62, 128, 47, 12, 169, 254, 100, 83, 105, 122 >>

\* the 32 bytes hashed first: the password, cut or padded with passwordPad
PadPassword(pw) ==
    IF Len(pw) >= 32 THEN SubSeq(pw, 1, 32)
    ELSE pw \o SubSeq(passwordPad, 1, 32 - Len(pw))

\* the file key: MD5 over the padded password, O, P and ID, cut to 5 bytes
\* for revision 2 and to n/8 bytes (after 50 more rounds) for revisions 3, 4
FileKey(pw, R, n) ==
    [set |-> TRUE, pw |-> PadPassword(pw), len |-> IF R >= 3 THEN n \div 8 ELSE 5]

IntOr0(obj) == IF obj.k = "int" THEN obj.n ELSE 0

okayV4(enc) ==
    LET cf == enc["CF"]
        stmf == enc["StmF"]
        strf == enc["StrF"]
        cfparam == IF cf.k = "dict" /\ stmf.k = "name" /\ stmf.nm \in Names
                      /\ cf.m[stmf.nm].k = "dict"
                   THEN cf.m[stmf.nm].m ELSE DictMap([A |-> Absent])
    IN /\ cf.k = "dict"
       /\ stmf.k = "name"
       /\ strf.k = "name"
       /\ stmf = strf
       /\ MapGet(cfparam, "AuthEvent") \in {Nil, NameObj("DocOpen")}
       /\ MapGet(cfparam, "Length") \in {Nil, IntObj(16)}
       /\ MapGet(cfparam, "CFM") = NameObj("AESV2")

\* does the stored U begin with the computed user check u
HasPrefix(U, u) == U.t = u.t /\ U.uk = u.uk /\ U.r3 = u.r3

\* the checks of initEncrypt, given what the lookups of Encrypt (ev), of ID
\* (ids) and of the first element of ID (idstr) returned: [e, key, aes], the
\* error returned and the key and useAES computed by then (NoKey before the
\* key is computed)
Handshake(password, ev, ids, idstr) ==
    LET fail(e) == [e |-> e, key |-> NoKey, aes |-> FALSE]
        enc == IF ev.v.data.k = "dict" THEN ev.v.data.m ELSE DictMap([A |-> Absent])
        n0 == IntOr0(enc["Length"])
        n == IF n0 = 0 THEN 40 ELSE n0
        V == IntOr0(enc["V"])
        R == IntOr0(enc["R"])
        O == IF enc["O"].k = "string" THEN enc["O"].s ELSE EmptyString
        U == IF enc["U"].k = "string" THEN enc["U"].s ELSE EmptyString
        fk == FileKey(password, R, n)
    IN IF ev.st \in {"panic", "diverge"} THEN fail(ev.st)
       ELSE IF ev.st = "err" THEN fail("Failed to resolve Encrypt key")
       ELSE IF MapGet(enc, "Filter") # NameObj("Standard") THEN fail("unsupported filter")
       ELSE IF n % 8 # 0 \/ n > 128 \/ n < 40 THEN fail("malformed key length")
       ELSE IF V # 1 /\ V # 2 /\ (V # 4 \/ ~okayV4(enc)) THEN fail("unsupported version")
       ELSE IF ids.st \in {"panic", "diverge"} THEN fail(ids.st)
       ELSE IF ids.st = "err" \/ Len_(ids.v) < 1 THEN fail("missing ID")
       ELSE IF idstr.st \in {"panic", "diverge"} THEN fail(idstr.st)
       ELSE IF idstr.st = "err" THEN fail("missing ID")
       ELSE IF R < 2 THEN fail("malformed revision")
       ELSE IF R > 4 THEN fail("unsupported revision")
       ELSE IF O.n # 32 \/ U.n # 32 THEN fail("missing O or U")
       ELSE IF ~HasPrefix(U, UserCheck(fk, R >= 3))
            THEN [e |-> "ErrInvalidPassword", key |-> fk, aes |-> (V = 4)]
       ELSE [e |-> "nil", key |-> fk, aes |-> (V = 4)]

\* the first element of the ID array
FirstID(ids) == Index(ids.v, 0, MaxFuel)

\* initEncrypt(password), up to the assignment of r.key and r.useAES
initEncrypt(password) ==
    Handshake(password,
              Key(Value(TRUE, file.tptr, DictObj(file.trailer)), "Encrypt", MaxFuel),
              Key(Value(TRUE, file.tptr, DictObj(file.trailer)), "ID", MaxFuel),
              FirstID(Key(Value(TRUE, file.tptr, DictObj(file.trailer)), "ID", MaxFuel)))

----------------------------------------------------------------------------
(* Reading the cross-reference chain (readXref, called by NewReaderEncrypted). *)

\* the record of a call: the operation, its receiver and arguments (par, x, i, nm), how it
\* ended (st, e) and what it returned (v, n, s, b, l)
\* no pngUpReader: a stream is not being read
NoPng == [st |-> "none", hist |-> <<>>, pend |-> 1, src |-> <<>>, outb |-> <<>>, input |-> <<>>,
          mid |-> FALSE]

NoOut == [op |-> "none", recv |-> ZeroValue, par |-> ZeroPtr, x |-> Nil, i |-> 0, nm |-> "",
          st |-> "ok", e |-> "nil", v |-> ZeroValue, n |-> 0, s |-> EmptyString,
          b |-> FALSE, l |-> <<>>]

InitReader ==
    /\ pc = "start"
    /\ mention = [x \in 0..MaxId |-> NoMention]
    /\ table = [st |-> "ok", tab |-> <<>>, size |-> 0, avail |-> 0]
    /\ xref = <<>>
    /\ prevoff = 0
    /\ key = NoKey
    /\ useAES = FALSE
    /\ err = "nil"
    /\ pwcalls = <<>>
    /\ tried = <<>>
    /\ cur = ZeroValue
    /\ out = NoOut
    /\ hist = NoOut
    /\ png = NoPng
    /\ pageContent = [st |-> "none"]
    /\ font = [st |-> "none"]
    /\ pdfbuffer = [st |-> "none"]

\* the xref stream of a section as readXrefStream parses it
XrefStream(sec) ==
    StreamObj([Type |-> NameObj("XRef"), Size |-> IntObj(sec.size),
               Length |-> IntObj(sec.wt * Len(sec.subs[1].ents))], ZeroPtr, 0)

\* the bytes of records Value.Reader hands to readXrefStreamData
RecordBytes(sec, length) ==
    IF length >= sec.wt * Len(sec.subs[1].ents) THEN sec.wt * Len(sec.subs[1].ents) ELSE length

\* one section read into the table: readXrefTableData or readXrefStreamData
ReadSection(tab, sec, size) ==
    IF file.fmt = "table"
    THEN [st |-> "ok", tab |-> readXrefTableData(tab, sec.subs, 1), size |-> size, avail |-> 0]
    ELSE [readXrefStreamData(
            [st |-> "ok", tab |-> tab, size |-> size,
             avail |-> RecordBytes(sec, ReaderLength(Value(TRUE, ZeroPtr, XrefStream(sec)),
                                                     MaxFuel))],
            sec.subs, 1, sec.w0, sec.wt, file.grows) EXCEPT !.avail = 0]

\* the tests of the Prev loop of readXrefStream on the older stream
PrevStreamOk(prev, size) ==
    /\ Kind(prev) = "Stream"
    /\ Name(prev, <<PKey("Type")>>, MaxFuel).s = "XRef"
    /\ Int64(prev, <<PKey("Size")>>, MaxFuel).st = "ok"
    /\ Int64(prev, <<PKey("Size")>>, MaxFuel).n <= size

AfterSection(res, more) ==
    /\ table' = res
    /\ pc' = CASE res.st = "ok" -> "prev" [] res.st = "panic" -> "panicked" [] OTHER -> "failed"
    /\ err' = IF res.st = "err" THEN "malformed PDF" ELSE err
    /\ prevoff' = IF res.st = "ok" /\ more THEN prevoff + 1 ELSE 0

\* the section startxref points at
ReadXref(secs) ==
    /\ pc = "start"
    /\ \E sec \in secs, more \in BOOLEAN :
          /\ more => prevoff + 1 < MaxSections
          /\ AfterSection(ReadSection(IF file.fmt = "table" THEN <<>> ELSE ZeroFill(sec.size),
                                      sec, sec.size), more)
          /\ mention' = Mentioned(mention, file.fmt, sec)
    /\ UNCHANGED <<file, png, pageContent, font, pdfbuffer, xref, key, useAES, pwcalls, tried, cur, out, hist>>

\* one round of the loop over Prev
ReadXrefPrev(secs) ==
    /\ pc = "prev"
    /\ prevoff # 0
    /\ \E sec \in secs, more \in BOOLEAN :
          /\ more => prevoff + 1 < MaxSections
          /\ IF file.fmt = "stream"
                /\ ~PrevStreamOk(Value(TRUE, ZeroPtr, XrefStream(sec)), table.size)
             THEN /\ AfterSection([table EXCEPT !.st = "err"], FALSE)
                  /\ UNCHANGED mention
             ELSE /\ AfterSection(ReadSection(table.tab, sec, table.size), more)
                  /\ mention' = Mentioned(mention, file.fmt, sec)
    /\ UNCHANGED <<file, png, pageContent, font, pdfbuffer, xref, key, useAES, pwcalls, tried, cur, out, hist>>

\* Prev is nil: the table is returned and stored in the Reader
ReadXrefDone ==
    /\ pc = "prev"
    /\ prevoff = 0
    /\ xref' = IF file.fmt = "table" THEN TruncateBySize(table.tab, table.size) ELSE table.tab
    /\ pc' = "xrefdone"
    /\ UNCHANGED <<file, png, pageContent, font, pdfbuffer, mention, table, prevoff, key, useAES, err, pwcalls, tried, cur, out, hist>>

----------------------------------------------------------------------------
(* The rest of NewReaderEncrypted: the handshake and the password callback. *)

MaxPwCalls == 2     \* calls of the password callback in one open

Passwords == {<<>>, <<117>>, <<120>>}

\* r.key assigned as soon as the key is computed, before the user check
KeyAssignedEarly(old, res) == IF res.key.set THEN res.key ELSE old

\* r.key after an attempt: initEncrypt assigns it after the user check only
KeyAfter(old, res) == IF res.e = "nil" THEN res.key ELSE old

AESAfter(old, res) == IF res.e = "nil" THEN res.aes ELSE old

\* the callback asked after any failure of the empty password
AfterEmptyAnyError(e, haspw) ==
    CASE e = "nil" -> "opened"
      [] e \in {"panic", "diverge"} -> "panicked"
      [] ~haspw -> "failed"
      [] OTHER -> "askpw"

\* where open goes after initEncrypt("") returned e, given whether pw is non-nil
AfterEmpty(e, haspw) ==
    CASE e = "nil" -> "opened"
      [] e \in {"panic", "diverge"} -> "panicked"
      [] ~haspw \/ e # "ErrInvalidPassword" -> "failed"
      [] OTHER -> "askpw"

\* the loop without its test of the empty answer
AfterCallbackNoBreak(next, e) ==
    CASE e = "nil" -> "opened"
      [] e \in {"panic", "diverge"} -> "panicked"
      [] OTHER -> "askpw"

\* where open goes after the callback returned next and, for a non-empty
\* next, initEncrypt(next) returned e
AfterCallback(next, e) ==
    CASE next = <<>> -> "failed"
      [] e = "nil" -> "opened"
      [] e \in {"panic", "diverge"} -> "panicked"
      [] OTHER -> "askpw"

\* is initEncrypt called with the password the callback returned
TriesPassword(next) == next # <<>>

\* the attempt with the empty password, res being what initEncrypt returned
EmptyAttempt(res) ==
    /\ tried' = Append(tried, <<>>)
    /\ key' = KeyAfter(key, res)
    /\ useAES' = AESAfter(useAES, res)
    /\ err' = res.e
    /\ pc' = AfterEmpty(res.e, file.pw)

OpenEncrypt ==
    /\ pc = "xrefdone"
    /\ IF MapGet(file.trailer, "Encrypt") = Nil
       THEN /\ pc' = "opened"
            /\ UNCHANGED <<key, useAES, err, tried>>
       ELSE EmptyAttempt(initEncrypt(<<>>))
    /\ UNCHANGED <<file, png, pageContent, font, pdfbuffer, mention, table, xref, prevoff, pwcalls, cur, out, hist>>

\* one round of the callback loop: the callback returned next; res is what
\* initEncrypt(next) returns when it is called
CallbackAttempt(next, res) ==
    /\ pwcalls' = Append(pwcalls, next)
    /\ IF TriesPassword(next)
       THEN /\ tried' = Append(tried, next)
            /\ key' = KeyAfter(key, res)
            /\ useAES' = AESAfter(useAES, res)
       ELSE UNCHANGED <<tried, key, useAES>>
    /\ pc' = AfterCallback(next, res.e)

AskPassword ==
    /\ pc = "askpw"
    /\ Len(pwcalls) < MaxPwCalls
    /\ \E next \in Passwords : CallbackAttempt(next, initEncrypt(next))
    /\ UNCHANGED <<file, png, pageContent, font, pdfbuffer, mention, table, xref, prevoff, err, cur, out, hist>>

----------------------------------------------------------------------------
(* The scalar accessors of Value. *)

Bool(v) == IF v.data.k = "bool" THEN v.data.b ELSE FALSE

\* a real is kept as the integer it was written with (x); an integer converts
Float64(v) ==
    CASE v.data.k = "real" -> v.data.x
      [] v.data.k = "int" -> v.data.n
      [] OTHER -> 0

RawString(v) == IF v.data.k = "string" THEN v.data.s ELSE EmptyString

\* Text decodes the bytes of a string; the texts of the model are plain ones,
\* which every decoding keeps
TextOf(v) == IF v.data.k = "string" THEN v.data.s ELSE EmptyString

\* Names in the byte order sort.Strings gives
SortedNames ==
    << "A", "AuthEvent", "CF", "CFM", "Columns", "Count", "CropBox", "DecodeParms", "Encrypt", "Extends",
       "Filter", "First", "ID", "Kids", "Length", "MediaBox", "N", "Next", "O", "Outlines", "P",
       "Pages", "Parent", "Predictor", "R",
       "Resources", "Root", "Size", "StdCF", "StmF", "StrF", "Title", "Type", "U", "V" >>

RECURSIVE PresentFrom(_, _)
PresentFrom(m, i) ==
    IF i > Len(SortedNames) THEN <<>>
    ELSE (IF m[SortedNames[i]] # Absent THEN <<SortedNames[i]>> ELSE <<>>) \o PresentFrom(m, i + 1)

\* Keys: [nil, l]; nil for a Value that is neither Dict nor Stream
Keys(v) ==
    CASE v.data.k = "dict" -> [nil |-> FALSE, l |-> PresentFrom(v.data.m, 1)]
      [] v.data.k = "stream" -> [nil |-> FALSE, l |-> PresentFrom(v.data.hdr, 1)]
      [] OTHER -> [nil |-> TRUE, l |-> <<>>]

----------------------------------------------------------------------------
(* The public operations on an open Reader. *)

MaxIndex == 1       \* largest array index a caller asks for
MaxPages == 2       \* Page leaves of a page tree
MaxColumns == 2     \* Columns of the predictor
MaxRows == 2        \* rows of the encoded data
MaxBuf == 3         \* largest buffer a caller reads into
MaxOps == 3         \* operators of the content streams of a page

KeyArgs == {"A", "N", "Extends", "Root", "First"}

\* the calls of resolve, (parent, x): references to ids the tables of the
\* model hold and to ids beyond them, and raw objects that are no references
ResolveCalls ==
    LET inside == {Ref(id, g) : id \in 0..MaxId, g \in 0..MaxGen} \cup {Ref(0, 65535)}
        outside == {Ref(id, g) : id \in (MaxId + 1)..(MaxId + 2), g \in 0..MaxGen}
        plain == {Nil, IntObj(7), KeywordObj("R"), ObjDef(Ptr(1, 0), IntObj(7))}
    IN {[par |-> ZeroPtr, x |-> x] : x \in inside \cup outside \cup plain}
       \cup {[par |-> Ptr(1, 0), x |-> x] : x \in outside \cup {Nil, Ref(1, 0), Ref(MaxId, 0)}}

Trailer == Value(TRUE, file.tptr, DictObj(file.trailer))

\* where a call leaves the program: a panic ends it, a call that does not end hangs it
PcAfter(st) ==
    CASE st = "panic" -> "panicked" [] st = "diverge" -> "diverged" [] OTHER -> "opened"

Frame == UNCHANGED <<file, png, pageContent, font, pdfbuffer, mention, table, xref, prevoff, key, useAES, err, pwcalls, tried>>

TrailerOp ==
    /\ pc = "opened"
    /\ cur' = Trailer
    /\ out' = [NoOut EXCEPT !.op = "trailer", !.recv = cur, !.v = Trailer]
    /\ UNCHANGED <<pc, hist>>
    /\ Frame

\* a call that returned (Value, error): the record of the call is kept in
\* out and the caller goes on with the Value
Returned(call, res) ==
    /\ out' = [call EXCEPT !.st = res.st, !.e = res.e, !.v = res.v]
    /\ cur' = res.v
    /\ pc' = PcAfter(res.st)

KeyOp ==
    /\ pc = "opened"
    /\ \E nm \in KeyArgs :
          Returned([NoOut EXCEPT !.op = "key", !.recv = cur, !.nm = nm], Key(cur, nm, MaxFuel))
    /\ UNCHANGED hist
    /\ Frame

IndexOp ==
    /\ pc = "opened"
    /\ \E i \in (-1)..MaxIndex :
          Returned([NoOut EXCEPT !.op = "index", !.recv = cur, !.i = i], Index(cur, i, MaxFuel))
    /\ UNCHANGED hist
    /\ Frame

\* the request whose first result is remembered in hist; hist.i becomes 1
\* when the request is made again
Probe == [par |-> ZeroPtr, x |-> Ref(1, 0)]

\* a call of resolve
ResolveOp ==
    /\ pc = "opened"
    /\ \E c \in ResolveCalls :
          /\ Returned([NoOut EXCEPT !.op = "resolve", !.par = c.par, !.x = c.x],
                      resolve(c.par, c.x, MaxFuel))
          /\ hist' = IF c # Probe THEN hist
                      ELSE IF hist.op = "none" THEN out'
                      ELSE [hist EXCEPT !.i = 1]
    /\ Frame

\* an accessor that returns a scalar leaves the Value the caller holds
Scalar(rec) ==
    /\ pc = "opened"
    /\ out' = rec
    /\ UNCHANGED <<pc, cur, hist>>
    /\ Frame

KindOp == Scalar([NoOut EXCEPT !.op = "kind", !.recv = cur, !.nm = Kind(cur)])

BoolOp == Scalar([NoOut EXCEPT !.op = "bool", !.recv = cur, !.b = Bool(cur)])

\* the record of an accessor that returned (number, error)
NumberRec(call, res) == [call EXCEPT !.st = res.st, !.e = res.e, !.n = res.n]

Int64Op == Scalar(NumberRec([NoOut EXCEPT !.op = "int64", !.recv = cur], Int64(cur, <<>>, MaxFuel)))

Float64Op == Scalar([NoOut EXCEPT !.op = "float64", !.recv = cur, !.n = Float64(cur)])

\* the record of an accessor that returned (string, error)
NameRec(call, res) == [call EXCEPT !.st = res.st, !.e = res.e, !.nm = res.s]

NameOp == Scalar(NameRec([NoOut EXCEPT !.op = "name", !.recv = cur], Name(cur, <<>>, MaxFuel)))

RawStringOp == Scalar([NoOut EXCEPT !.op = "raw_string", !.recv = cur, !.s = RawString(cur)])

TextOp == Scalar([NoOut EXCEPT !.op = "text", !.recv = cur, !.s = TextOf(cur)])

LenOp == Scalar([NoOut EXCEPT !.op = "len", !.recv = cur, !.n = Len_(cur)])

KeysOp == Scalar([NoOut EXCEPT !.op = "keys", !.recv = cur, !.l = Keys(cur).l, !.b = Keys(cur).nil])

NavigationOps ==
    \/ TrailerOp
    \/ KeyOp
    \/ IndexOp
    \/ KeysOp

ValueOps ==
    \/ TrailerOp
    \/ KeyOp
    \/ IndexOp
    \/ ResolveOp
    \/ KindOp
    \/ BoolOp
    \/ Int64Op
    \/ Float64Op
    \/ NameOp
    \/ RawStringOp
    \/ TextOp
    \/ LenOp
    \/ KeysOp

----------------------------------------------------------------------------
(* The files of the specifications. *)

NoObjs == [o \in {} |-> Nil]

BareFile(fmt, grows) ==
    [fmt |-> fmt, grows |-> grows, pw |-> FALSE, tptr |-> ZeroPtr,
     trailer |-> DictMap([Root |-> Ref(1, 0)]), objs |-> NoObjs, streams |-> NoObjs]

InitXref ==
    /\ file \in {BareFile("table", TRUE), BareFile("stream", TRUE), BareFile("stream", FALSE)}
    /\ InitReader

NextXref ==
    \/ ReadXref(IF file.fmt = "table" THEN TableSections ELSE StreamSections)
    \/ ReadXrefPrev(IF file.fmt = "table" THEN TableSections ELSE StreamSections)
    \/ ReadXrefDone

SpecXref == InitXref /\ [][NextXref]_vars

----------------------------------------------------------------------------
(* Encrypted files. *)

UserPassword == <<117>>

\* the U entry a writer stores for user password upw
StoredU(upw, R, n) == StrObj([UserCheck(FileKey(upw, R, n), R >= 3) EXCEPT !.n = 32], NoObjKey)

EncDict(filter, len, V, R, O, U, cf, stmf, strf) ==
    DictObj([Filter |-> filter, Length |-> len, V |-> V, R |-> R, O |-> O, U |-> U,
             P |-> IntObj(4), CF |-> cf, StmF |-> stmf, StrF |-> strf])

CryptFilter(cfm, auth) == DictObj([StdCF |-> DictObj([CFM |-> cfm, AuthEvent |-> auth])])

\* an Encrypt dictionary of revision 3 for the user password
BaseEnc ==
    EncDict(NameObj("Standard"), IntObj(128), IntObj(2), IntObj(3), PlainStr("O", 32),
            StoredU(UserPassword, 3, 128), Absent, Absent, Absent)

\* dictionaries the handshake accepts, for either user password, and
\* dictionaries with one entry it rejects before the user check
EncDicts ==
    LET Std == NameObj("Standard")
        O32 == PlainStr("O", 32)
        StdCF == NameObj("StdCF")
        AESV2 == CryptFilter(NameObj("AESV2"), Absent)
        U3 == StoredU(UserPassword, 3, 128)
        i128 == IntObj(128)
    IN UNION {{EncDict(Std, Absent, IntObj(1), IntObj(2), O32, StoredU(upw, 2, 40),
                       Absent, Absent, Absent),
               EncDict(Std, i128, IntObj(2), IntObj(3), O32, StoredU(upw, 3, 128),
                       Absent, Absent, Absent),
               EncDict(Std, i128, IntObj(4), IntObj(4), O32, StoredU(upw, 4, 128),
                       AESV2, StdCF, StdCF)} : upw \in {<<>>, UserPassword}}
       \cup
       {EncDict(NameObj("Other"), i128, IntObj(2), IntObj(3), O32, U3, Absent, Absent, Absent),
        EncDict(Std, IntObj(36), IntObj(2), IntObj(3), O32, U3, Absent, Absent, Absent),
        EncDict(Std, IntObj(136), IntObj(2), IntObj(3), O32, U3, Absent, Absent, Absent),
        EncDict(Std, i128, IntObj(3), IntObj(3), O32, U3, Absent, Absent, Absent),
        EncDict(Std, i128, IntObj(4), IntObj(4), O32, U3, Absent, StdCF, StdCF),
        EncDict(Std, i128, IntObj(4), IntObj(4), O32, U3, AESV2, StdCF, NameObj("Identity")),
        EncDict(Std, i128, IntObj(4), IntObj(4), O32, U3,
                CryptFilter(NameObj("V2"), Absent), StdCF, StdCF),
        EncDict(Std, i128, IntObj(4), IntObj(4), O32, U3,
                CryptFilter(NameObj("AESV2"), NameObj("EFOpen")), StdCF, StdCF),
        EncDict(Std, i128, IntObj(2), IntObj(1), O32, U3, Absent, Absent, Absent),
        EncDict(Std, i128, IntObj(2), IntObj(5), O32, U3, Absent, Absent, Absent),
        EncDict(Std, i128, IntObj(2), IntObj(3), PlainStr("O", 16), U3, Absent, Absent, Absent),
        EncDict(Std, i128, IntObj(2), IntObj(3), O32, PlainStr("junk", 32),
                Absent, Absent, Absent)}

\* files with a classic table: object 1, the catalog, at offset 1 and object
\* 2, an Encrypt dictionary, at offset 2; Encrypt and ID as they can stand in
\* a trailer
OpenFiles ==
    LET GoodID == ArrayObj(<<PlainStr("id", 16)>>)
        Catalog == DictObj([A |-> PlainStr("title", 5), N |-> IntObj(1)])
        trailers ==
            {DictMap([Root |-> Ref(1, 0), A |-> Ref(1, 0), Encrypt |-> e, ID |-> GoodID])
                : e \in EncDicts \cup {Absent, Nil, IntObj(1), Ref(2, 0), Ref(9, 0)}}
            \cup {DictMap([Root |-> Ref(1, 0), A |-> Ref(1, 0), Encrypt |-> BaseEnc, ID |-> i])
                : i \in {Absent, ArrayObj(<<>>), ArrayObj(<<Ref(9, 0)>>), Ref(2, 0)}}
    IN {[fmt |-> "table", grows |-> TRUE, pw |-> haspw, tptr |-> ZeroPtr, trailer |-> t,
         objs |-> 1 :> ObjDef(Ptr(1, 0), Catalog) @@ 2 :> ObjDef(Ptr(2, 0), BaseEnc),
         streams |-> NoObjs]
           : haspw \in BOOLEAN, t \in trailers}

\* xref tables "0 3: free, object 1 at offset 1, object 2 at offset 2" and an older "1 1"
OpenSections ==
    {[size |-> 3, w0 |-> 1, wt |-> 0,
      subs |-> <<[start |-> 0, ents |-> <<[off |-> 0, gen |-> 1, alloc |-> "f"],
                                          [off |-> 1, gen |-> 0, alloc |-> "n"],
                                          [off |-> 2, gen |-> 0, alloc |-> "n"]>>]>>],
     [size |-> 3, w0 |-> 1, wt |-> 0,
      subs |-> <<[start |-> 1, ents |-> <<[off |-> 1, gen |-> 0, alloc |-> "n"]>>]>>]}

InitOpen ==
    /\ file \in OpenFiles
    /\ InitReader

NextOpen ==
    \/ ReadXref(OpenSections)
    \/ ReadXrefPrev(OpenSections)
    \/ ReadXrefDone
    \/ OpenEncrypt
    \/ AskPassword
    \/ NavigationOps

SpecOpen == InitOpen /\ [][NextOpen]_vars

----------------------------------------------------------------------------
(* Files with inline and compressed objects, read through an xref stream. *)

\* an object stream of one object, its content at offset off
ObjStm(ptr, off, ext) ==
    StreamObj([Type |-> NameObj("ObjStm"), N |-> IntObj(1), First |-> IntObj(0),
               Length |-> IntObj(4), Extends |-> ext], ptr, off)

\* at offset 1 a definition of object 1; at offset 2 a definition of object
\* 2, one of object 1 or no definition; the content of the object stream is
\* the prefix "3 0" and the object 9
ResolveFiles ==
    LET at1 == {ObjDef(Ptr(1, 0), b) :
                   b \in {DictObj([A |-> Ref(2, 0), N |-> IntObj(1), Root |-> Nil]),
                          Ref(2, 0),
                          ObjStm(Ptr(1, 0), 1, Absent)}}
        at2 == {ObjDef(Ptr(2, 0), b) : b \in {IntObj(7), ArrayObj(<<Ref(1, 0), Nil>>)}}
               \cup {ObjDef(Ptr(1, 0), IntObj(7)), IntObj(5)}
    IN {[fmt |-> "stream", grows |-> TRUE, pw |-> FALSE, tptr |-> Ptr(2, 0),
         trailer |-> DictMap([Root |-> Ref(1, 0), A |-> Ref(2, 0), N |-> IntObj(3),
                              Extends |-> Ref(9, 0)]),
         objs |-> 1 :> o1 @@ 2 :> o2,
         streams |-> 1 :> [len |-> 4, pairs |-> <<[id |-> 3, off |-> 0]>>,
                           body |-> <<IntObj(9)>>]]
           : o1 \in at1, o2 \in at2}

\* the tables a Reader can hold for three objects: entry 0 unset; object 1
\* free, at offset 1, in object stream 1 (itself) or in object stream 2;
\* object 2 unset, free, at offset 2 or in object stream 1
ReaderTables ==
    LET inline(x) == [ptr |-> Ptr(x, 0), inStream |-> FALSE, stream |-> ZeroPtr, offset |-> x]
        packed(x, s) == [ptr |-> Ptr(x, 0), inStream |-> TRUE, stream |-> Ptr(s, 0), offset |-> 0]
        free == [ZeroXref EXCEPT !.ptr = FreePtr]
    IN {<<ZeroXref, e1, e2>> : e1 \in {free, inline(1), packed(1, 1), packed(1, 2)},
                               e2 \in {ZeroXref, free, inline(2), packed(2, 1)}}

\* a Reader as NewReaderEncrypted returns it for a file without Encrypt; its
\* xref table is the input of resolve
Init ==
    /\ file \in ResolveFiles
    /\ xref \in ReaderTables
    /\ pc = "opened"
    /\ mention = [x \in 0..MaxId |-> NoMention]
    /\ table = [st |-> "ok", tab |-> xref, size |-> Len(xref), avail |-> 0]
    /\ prevoff = 0
    /\ key = NoKey
    /\ useAES = FALSE
    /\ err = "nil"
    /\ pwcalls = <<>>
    /\ tried = <<>>
    /\ cur = ZeroValue
    /\ out = NoOut
    /\ hist = NoOut
    /\ png = NoPng
    /\ pageContent = [st |-> "none"]
    /\ font = [st |-> "none"]
    /\ pdfbuffer = [st |-> "none"]

Next == ValueOps

Spec == Init /\ [][Next]_vars

----------------------------------------------------------------------------
(* Pages: NumPage, Page and the inherited attributes of a page. *)

\* NumPage: Int with the path Root, Pages, Count on the trailer; the error is dropped
NumPage == ValueInt(Trailer, <<PKey("Root"), PKey("Pages"), PKey("Count")>>, MaxFuel).n

NumPageOp ==
    /\ pc = "opened"
    /\ out' = [NoOut EXCEPT !.op = "num_page", !.n = NumPage]
    /\ UNCHANGED <<pc, cur, hist>>
    /\ Frame

\* the next link of a chain of Key calls: an error ends the chain
KeyOf(res, nm, fuel) == IF res.st # "ok" THEN res ELSE Key(res.v, nm, fuel)

\* Reader.Page after page := Trailer.Key("Root").Key("Pages"): a null Page
\* when the chain failed or the Type of the node is not Pages; past these two
\* tests the function has no statement left and returns no Page
PageOf(pages, type) ==
    IF pages.st # "ok" THEN [st |-> "ok", v |-> ZeroValue]
    ELSE IF type.s # "Pages" THEN [st |-> "ok", v |-> ZeroValue]
    ELSE [st |-> "noreturn", v |-> ZeroValue]

Page(num) ==
    PageOf(KeyOf(Key(Trailer, "Root", MaxFuel), "Pages", MaxFuel),
           AsName(KeyOf(KeyOf(Key(Trailer, "Root", MaxFuel), "Pages", MaxFuel), "Type", MaxFuel)))

PageOp ==
    /\ pc = "opened"
    /\ \E num \in 0..(MaxPages + 1) :
          out' = [NoOut EXCEPT !.op = "page", !.i = num, !.st = Page(num).st, !.v = Page(num).v]
    /\ UNCHANGED <<pc, cur, hist>>
    /\ Frame

\* the first round of the loop of findInherited returns what Key gave
FirstLook(res) == IF res.st = "err" THEN Err(res.e) ELSE res

findInherited(v, nm, fuel) ==
    IF Kind(v) = "Null" THEN Ok(ZeroValue) ELSE FirstLook(Key(v, nm, fuel))

\* MediaBox, CropBox or Resources asked of the Page whose V is page.v
Inherited(page, nm) ==
    /\ page.st = "ok"
    /\ Returned([NoOut EXCEPT !.op = "inherited", !.recv = page.v, !.nm = nm],
                findInherited(page.v, nm, MaxFuel))

FindInheritedOp ==
    /\ pc = "opened"
    /\ \E id \in 1..(MaxPages + 2), nm \in {"MediaBox", "CropBox", "Resources"} :
          Inherited(resolve(ZeroPtr, Ref(id, 0), MaxFuel), nm)
    /\ UNCHANGED hist
    /\ Frame

\* a catalog (object 1), a Pages node (object 2) and MaxPages Page leaves
\* (objects 3, 4, ...) that are the Kids of the node and have it as Parent;
\* the Count of the node, its Type, and the MediaBox of the node and of the
\* first leaf vary
PageTreeFiles ==
    LET box(w) == ArrayObj(<<IntObj(0), IntObj(0), IntObj(w), IntObj(792)>>)
        leaf(mb) == DictObj([Type |-> NameObj("Page"), Parent |-> Ref(2, 0), MediaBox |-> mb])
        node(t, c, mb) == DictObj([Type |-> NameObj(t), Count |-> IntObj(c), MediaBox |-> mb,
                                   Kids |-> ArrayObj([i \in 1..MaxPages |-> Ref(i + 2, 0)])])
        catalog == DictObj([Type |-> NameObj("Catalog"), Pages |-> Ref(2, 0)])
    IN {[fmt |-> "table", grows |-> TRUE, pw |-> FALSE, tptr |-> ZeroPtr,
         trailer |-> DictMap([Root |-> Ref(1, 0)]),
         objs |-> [o \in 1..(MaxPages + 2) |->
                     ObjDef(Ptr(o, 0), CASE o = 1 -> catalog
                                         [] o = 2 -> node(t, c, nb)
                                         [] o = 3 -> leaf(lb)
                                         [] OTHER -> leaf(Absent))],
         streams |-> NoObjs]
           : t \in {"Pages", "Page"}, c \in MaxPages..(MaxPages + 1),
             nb \in {Absent, box(612)}, lb \in {Absent, box(595)}}

\* a Reader opened on a file of PageTreeFiles, every object in use at its offset
SpecPages ==
    /\ file \in PageTreeFiles
    /\ xref = [x \in 1..(MaxPages + 3) |->
                 IF x = 1 THEN ZeroXref
                 ELSE [ptr |-> Ptr(x - 1, 0), inStream |-> FALSE, stream |-> ZeroPtr,
                       offset |-> x - 1]]
    /\ pc = "opened"
    /\ mention = [x \in 0..MaxId |-> NoMention]
    /\ table = [st |-> "ok", tab |-> xref, size |-> Len(xref), avail |-> 0]
    /\ prevoff = 0
    /\ key = NoKey
    /\ useAES = FALSE
    /\ err = "nil"
    /\ pwcalls = <<>>
    /\ tried = <<>>
    /\ cur = ZeroValue
    /\ out = NoOut
    /\ hist = NoOut
    /\ png = NoPng
    /\ pageContent = [st |-> "none"]
    /\ font = [st |-> "none"]
    /\ pdfbuffer = [st |-> "none"]
    /\ [][NumPageOp \/ PageOp \/ FindInheritedOp]_vars

----------------------------------------------------------------------------
(* Value.Reader: the readers it stacks over the bytes of a stream. A plan   *)
(* is [st, n, dec, chain]: n the length of the section reader, dec whether *)
(* a decrypting reader lies over it, chain the filters over that, in the   *)
(* order they were applied, each with the parameters it was given.         *)

\* the reader applyFilter returns for FlateDecode, pred being what
\* param.Int64("Predictor") returned
WithPredictor(plan, name, param, pred) ==
    IF pred.st # "ok" \/ pred.n = 1
    THEN [plan EXCEPT !.chain = Append(@, [name |-> name, param |-> param.data, up |-> FALSE])]
    ELSE IF pred.n = 12
    THEN [plan EXCEPT !.chain = Append(@, [name |-> name, param |-> param.data, up |-> TRUE])]
    ELSE [plan EXCEPT !.st = "panic"]

\* applyFilter over the reader of plan: zlib.NewReader reads the two bytes
\* of the zlib header at once and fails on a reader that has none
applyFilter(plan, name, param, fuel) ==
    IF plan.st # "ok" THEN plan
    ELSE IF name # "FlateDecode" THEN [plan EXCEPT !.st = "panic"]
    ELSE IF plan.n < 2 THEN [plan EXCEPT !.st = "panic"]
    ELSE WithPredictor(plan, name, param, Int64(param, <<PKey("Predictor")>>, fuel))

\* filter i of a Filter array: the element itself is passed as the parameters
ArrayFilter(plan, flt, fuel) ==
    applyFilter(plan, Name(IF flt.st = "ok" THEN flt.v ELSE ZeroValue, <<>>, fuel).s,
                IF flt.st = "ok" THEN flt.v ELSE ZeroValue, fuel)

RECURSIVE ArrayFilters(_, _, _, _)
ArrayFilters(plan, filter, i, fuel) ==
    IF i >= Len_(filter) \/ plan.st # "ok" THEN plan
    ELSE ArrayFilters(ArrayFilter(plan, Index(filter, i, fuel), fuel), filter, i + 1, fuel)

\* the switch of Value.Reader on the kind of Filter
Filters(plan, filter, param, fuel) ==
    IF filter.st \in {"panic", "diverge"} THEN [plan EXCEPT !.st = filter.st]
    ELSE IF param.st \in {"panic", "diverge"} THEN [plan EXCEPT !.st = param.st]
    ELSE IF filter.st # "ok" \/ Kind(filter.v) = "Null" THEN plan
    ELSE IF Kind(filter.v) = "Name"
    THEN applyFilter(plan, Name(filter.v, <<>>, fuel).s,
                     IF param.st = "ok" THEN param.v ELSE ZeroValue, fuel)
    ELSE IF Kind(filter.v) = "Array" THEN ArrayFilters(plan, filter.v, 0, fuel)
    ELSE [plan EXCEPT !.st = "panic"]

Reader(v, fuel) ==
    IF v.data.k # "stream"
    THEN [st |-> "stream not present", n |-> 0, dec |-> FALSE, chain |-> <<>>]
    ELSE Filters([st |-> "ok", n |-> ReaderLength(v, fuel), dec |-> key.set, chain |-> <<>>],
                 Key(v, "Filter", fuel), Key(v, "DecodeParms", fuel), fuel)

\* Reader called on the Value a call of resolve returned
ReaderOn(res, plan) ==
    /\ res.st = "ok"
    /\ out' = [NoOut EXCEPT !.op = "reader", !.recv = res.v, !.st = plan.st, !.n = plan.n,
                            !.b = plan.dec, !.l = plan.chain]
    /\ pc' = PcAfter(plan.st)

ReaderOp ==
    /\ pc = "opened"
    /\ \E id \in 1..2 :
          ReaderOn(resolve(ZeroPtr, Ref(id, 0), MaxFuel),
                   Reader(IF resolve(ZeroPtr, Ref(id, 0), MaxFuel).st = "ok"
                          THEN resolve(ZeroPtr, Ref(id, 0), MaxFuel).v ELSE ZeroValue, MaxFuel))
    /\ UNCHANGED <<cur, hist>>
    /\ Frame

\* object 1 is a stream of MaxBuf bytes whose Length, Filter and DecodeParms
\* vary, object 2 a dictionary; the file is plain or encrypted with RC4
SpecStream ==
    /\ \E len \in {0, MaxBuf},
          flt \in {Absent, NameObj("FlateDecode"), NameObj("LZWDecode"), IntObj(1),
                   ArrayObj(<<NameObj("FlateDecode")>>),
                   ArrayObj(<<NameObj("FlateDecode"), NameObj("FlateDecode")>>)},
          parms \in {Absent, DictObj([Predictor |-> IntObj(12), Columns |-> IntObj(MaxColumns)]),
                     ArrayObj(<<DictObj([Predictor |-> IntObj(12)]), Nil>>)} :
          file = [fmt |-> "table", grows |-> TRUE, pw |-> FALSE, tptr |-> ZeroPtr,
                  trailer |-> DictMap([Root |-> Ref(2, 0)]),
                  objs |-> 1 :> ObjDef(Ptr(1, 0), StreamObj([Length |-> IntObj(len), Filter |-> flt,
                                                             DecodeParms |-> parms], Ptr(1, 0), 1))
                           @@ 2 :> ObjDef(Ptr(2, 0), DictObj([Length |-> IntObj(len)])),
                  streams |-> 1 :> [len |-> MaxBuf, pairs |-> <<>>, body |-> <<>>]]
    /\ xref = <<ZeroXref,
                [ptr |-> Ptr(1, 0), inStream |-> FALSE, stream |-> ZeroPtr, offset |-> 1],
                [ptr |-> Ptr(2, 0), inStream |-> FALSE, stream |-> ZeroPtr, offset |-> 2]>>
    /\ key \in {NoKey, FileKey(<<>>, 3, 128)}
    /\ useAES = FALSE
    /\ pc = "opened"
    /\ mention = [x \in 0..MaxId |-> NoMention]
    /\ table = [st |-> "ok", tab |-> xref, size |-> Len(xref), avail |-> 0]
    /\ prevoff = 0
    /\ err = "nil"
    /\ pwcalls = <<>>
    /\ tried = <<>>
    /\ cur = ZeroValue
    /\ out = NoOut
    /\ hist = NoOut
    /\ png = NoPng
    /\ pageContent = [st |-> "none"]
    /\ font = [st |-> "none"]
    /\ pdfbuffer = [st |-> "none"]
    /\ [][ReaderOp]_vars

----------------------------------------------------------------------------
(* The PNG-Up reader. png.hist is r.hist; r.pend is the slice of r.hist     *)
(* from index png.pend on (empty when png.pend is past the end); png.src   *)
(* is what the reader below still holds and png.outb what Read has copied  *)
(* into the buffers of its callers so far.                                 *)


\* hist without the history of earlier rows: the row as it is
RowAlone(h, tmp) == tmp

\* r.hist[i] += b for every byte of the row, in byte arithmetic
AddRow(h, tmp) == [i \in DOMAIN h |-> (h[i] + tmp[i]) % 256]

\* pngUpReader.Read into a buffer with k bytes of room left
RECURSIVE pngUpRead(_, _)
pngUpRead(r, k) ==
    IF k = 0 THEN r
    ELSE IF r.pend <= Len(r.hist)
    THEN LET m == IF k < Len(r.hist) - r.pend + 1 THEN k ELSE Len(r.hist) - r.pend + 1
         IN pngUpRead([r EXCEPT !.outb = @ \o SubSeq(r.hist, r.pend, r.pend + m - 1),
                                !.pend = @ + m], k - m)
    ELSE IF Len(r.src) = 0 THEN [r EXCEPT !.st = "EOF"]
    ELSE IF Len(r.src) < Len(r.hist) THEN [r EXCEPT !.st = "ErrUnexpectedEOF", !.src = <<>>]
    ELSE IF r.src[1] # 2
    THEN [r EXCEPT !.st = "malformed PNG-Up encoding",
                   !.src = SubSeq(@, Len(r.hist) + 1, Len(@))]
    ELSE pngUpRead([r EXCEPT !.hist = AddRow(@, SubSeq(r.src, 1, Len(r.hist))),
                             !.pend = 2,
                             !.src = SubSeq(@, Len(r.hist) + 1, Len(@))], k)

\* one call of Read by the caller, who stops at the first error
pngUpReadOp ==
    /\ png.st = "ok"
    /\ \E k \in 0..MaxBuf :
          png' = [pngUpRead(png, k) EXCEPT
                    !.mid = @ \/ (pngUpRead(png, k).pend > 2
                                   /\ pngUpRead(png, k).pend <= Len(png.hist))]
    /\ UNCHANGED <<file, mention, pc, table, xref, prevoff, key, useAES, err, pwcalls, tried,
                   cur, out, hist, pageContent, font, pdfbuffer>>

\* the reader applyFilter makes for Predictor 12: hist and tmp of 1 + Columns
\* zero bytes, over data of up to MaxRows rows that start with 2 (or, wrongly,
\* with 1), with or without a cut row after them
SpecPng ==
    /\ \E c \in 1..MaxColumns, n \in 0..MaxRows, tail \in {<<>>, <<2>>} :
          \E rows \in [1..n -> {<<2>> \o pl : pl \in [1..c -> {1, 200}]} \cup {[i \in 1..(1 + c) |-> 1]}] :
             png = [st |-> "ok", hist |-> [i \in 1..(1 + c) |-> 0], pend |-> c + 2,
                    src |-> [x \in 1..(n * (1 + c)) |->
                               rows[((x - 1) \div (1 + c)) + 1][((x - 1) % (1 + c)) + 1]] \o tail,
                    input |-> [x \in 1..(n * (1 + c)) |->
                                 rows[((x - 1) \div (1 + c)) + 1][((x - 1) % (1 + c)) + 1]] \o tail,
                    outb |-> <<>>, mid |-> FALSE]
    /\ file = BareFile("table", TRUE)
    /\ mention = [x \in 0..MaxId |-> NoMention]
    /\ pc = "opened"
    /\ table = [st |-> "ok", tab |-> <<>>, size |-> 0, avail |-> 0]
    /\ xref = <<>>
    /\ prevoff = 0
    /\ key = NoKey
    /\ useAES = FALSE
    /\ err = "nil"
    /\ pwcalls = <<>>
    /\ tried = <<>>
    /\ cur = ZeroValue
    /\ out = NoOut
    /\ hist = NoOut
    /\ pageContent = [st |-> "none"]
    /\ font = [st |-> "none"]
    /\ pdfbuffer = [st |-> "none"]
    /\ [][pngUpReadOp]_vars

----------------------------------------------------------------------------
(* Page.Content: the callback that Interpret runs on every operator of a    *)
(* content stream, with the operands the stream pushed before it.           *)
(* pageContent holds g, gstack, text and paths of Content, st whether the   *)
(* call is running, n the operators run so far, streams the length of the   *)
(* slice streams and strm the place in it of the stream being interpreted.  *)
(* Numbers are integers:                                                    *)
(* widths are multiples of 1000 and scalings multiples of 100, so that the  *)
(* divisions of the code are exact.                                         *)

ident == <<<<1, 0, 0>>, <<0, 1, 0>>, <<0, 0, 1>>>>

mul(x, y) ==
    [i \in 1..3 |-> [j \in 1..3 |-> x[i][1] * y[1][j] + x[i][2] * y[2][j] + x[i][3] * y[3][j]]]

\* matrix{{1, 0, 0}, {0, 1, 0}, {x, y, 1}}
Translate(x, y) == <<<<1, 0, 0>>, <<0, 1, 0>>, <<x, y, 1>>>>

\* Content before the first operator: g with Th 1 and CTM ident, every other
\* field zero (Tm and Tlm too) and no font; paths holds sl/10 and text sl/100
\* zero records, sl being the sum that the loop over streams makes of Length
NoContent(sl) ==
    [st |-> "ok", n |-> 0, streams |-> 1, strm |-> 1,
     g |-> [Tc |-> 0, Tw |-> 0, Th |-> 1, Tl |-> 0, Tf |-> [name |-> "", w |-> 0, enc |-> FALSE],
            Tfs |-> 0, Tmode |-> 0, Trise |-> 0,
            Tm |-> <<<<0, 0, 0>>, <<0, 0, 0>>, <<0, 0, 0>>>>,
            Tlm |-> <<<<0, 0, 0>>, <<0, 0, 0>>, <<0, 0, 0>>>>,
            CTM |-> ident, Px |-> 0, Py |-> 0,
            JoinStyle |-> 0, CapStyle |-> 0, LineWidth |-> 0],
     gstack |-> <<>>,
     text |-> [i \in 1..(sl \div 100) |-> [Font |-> "", X |-> 0, Y |-> 0, W |-> 0, S |-> <<>>]],
     paths |-> [i \in 1..(sl \div 10) |->
                  [Kind |-> "", Points |-> <<>>, EndPoint |-> [X |-> 0, Y |-> 0],
                   JoinStyle |-> 0, CapStyle |-> 0, lw2 |-> 0, LineWidth |-> 0]]]

\* the loop of showText that moves g.Tm past the characters of decoded,
\* leaving out the spaces before the first other character
RECURSIVE Advance(_, _, _, _)
Advance(g, decoded, i, skip) ==
    IF i > Len(decoded) THEN g
    ELSE IF skip /\ decoded[i].Text = 32 THEN Advance(g, decoded, i + 1, TRUE)
    ELSE Advance([g EXCEPT !.Tm = mul(Translate(((decoded[i].Width \div 1000) * g.Tfs + g.Tc
                                                 + (IF decoded[i].Text = 32 THEN g.Tw ELSE 0))
                                                * g.Th, 0), @)],
                 decoded, i + 1, FALSE)

\* showText(s) with s the raw string of obj: a font decodes each byte to one
\* character of the font's width; the zero Font has no encoding to call
showText(c, obj) ==
    LET s == IF obj.k = "string" THEN obj.s ELSE <<>>
        decoded == [i \in DOMAIN s |-> [Text |-> s[i], Width |-> c.g.Tf.w]]
        Trm == mul(mul(<<<<c.g.Tfs * c.g.Th, 0, 0>>, <<0, c.g.Tfs, 0>>, <<0, c.g.Trise, 1>>>>,
                       c.g.Tm), c.g.CTM)
    IN IF ~c.g.Tf.enc THEN [c EXCEPT !.st = "panic"]
       ELSE [c EXCEPT !.text = Append(@, [Font |-> c.g.Tf.name, X |-> Trm[3][1], Y |-> Trm[3][2],
                                         W |-> Trm[1][1], S |-> decoded]),
                      !.g = Advance(c.g, decoded, 1, TRUE)]

\* ' that shows the string where the text matrix stands
ShowInPlace(c, obj) == showText(c, obj)

\* case "'" after its check of len(args): T* and then showText
MoveShow(c, obj) ==
    showText([c EXCEPT !.g.Tlm = mul(Translate(0, 0 - c.g.Tl), c.g.Tlm),
                       !.g.Tm = mul(Translate(0, 0 - c.g.Tl), c.g.Tlm)], obj)

\* Q that takes the saved state off gstack and leaves g as it is
RestoreStackOnly(c) ==
    IF c.gstack = <<>> THEN [c EXCEPT !.st = "panic"]
    ELSE [c EXCEPT !.gstack = SubSeq(@, 1, Len(@) - 1)]

\* case "Q": g is the last element of gstack, which loses it; with gstack
\* empty the index -1 is out of range
Restore(c) ==
    IF c.gstack = <<>> THEN [c EXCEPT !.st = "panic"]
    ELSE [c EXCEPT !.g = c.gstack[Len(c.gstack)], !.gstack = SubSeq(@, 1, Len(@) - 1)]

\* the loop of TJ over the elements of the array a, from element i on
RECURSIVE ShowArray(_, _, _)
ShowArray(c, a, i) ==
    IF i > Len(a) \/ c.st # "ok" THEN c
    ELSE IF a[i].k = "string" THEN ShowArray(showText(c, a[i]), a, i + 1)
    ELSE ShowArray([c EXCEPT !.g.Tm = mul(Translate((0 - (IntOr0(a[i]) \div 1000) + c.g.Tc)
                                                    * c.g.Tfs * c.g.Th, 0), @)],
                   a, i + 1)

\* the switch on op; args are all operands on the stack, the first pushed first
Operator(c, op, args) ==
    LET g == c.g
        n == Len(args)
        F(i) == IntOr0(args[i])
        Bad == [c EXCEPT !.st = "panic"]
        Six == <<<<F(1), F(2), 0>>, <<F(3), F(4), 0>>, <<F(5), F(6), 1>>>>
        Pt(x, y) == [X |-> mul(Translate(x, y), g.CTM)[3][1],
                     Y |-> mul(Translate(x, y), g.CTM)[3][2]]
        Path(kind, pts, end) ==
            [Kind |-> kind, Points |-> pts, EndPoint |-> end, JoinStyle |-> g.JoinStyle,
             CapStyle |-> g.CapStyle,
             lw2 |-> g.CTM[1][1] * g.CTM[1][1] + g.CTM[2][1] * g.CTM[2][1],
             LineWidth |-> g.LineWidth]
        Move(h, tx, ty) == [h EXCEPT !.Tlm = mul(Translate(tx, ty), h.Tlm),
                                     !.Tm = mul(Translate(tx, ty), h.Tlm)]
    IN CASE op \in {"y", "v"} ->
              IF n < 4 THEN Bad ELSE [c EXCEPT !.g.Px = F(3), !.g.Py = F(4)]
         [] op = "c" ->
              IF n < 6 THEN Bad
              ELSE [c EXCEPT !.g.Px = F(5), !.g.Py = F(6),
                             !.paths = Append(@, Path("bezier",
                                          <<Pt(g.Px, g.Py), Pt(F(1), F(2)), Pt(F(3), F(4)),
                                            Pt(F(5), F(6))>>, Pt(F(5), F(6))))]
         [] op = "cm" -> IF n # 6 THEN Bad ELSE [c EXCEPT !.g.CTM = mul(Six, @)]
         [] op = "gs" -> IF n < 1 THEN Bad ELSE c
         [] op = "l" ->
              IF n < 2 THEN Bad
              ELSE [c EXCEPT !.g.Px = F(1), !.g.Py = F(2),
                             !.paths = Append(@, Path("line", <<Pt(g.Px, g.Py), Pt(F(1), F(2))>>,
                                                      Pt(F(1), F(2))))]
         [] op = "m" -> IF n < 2 THEN Bad ELSE [c EXCEPT !.g.Px = F(1), !.g.Py = F(2)]
         [] op = "re" ->
              IF n # 4 THEN Bad
              ELSE [c EXCEPT !.paths = Append(@, Path("rect",
                                          <<[X |-> F(1), Y |-> F(2)],
                                            [X |-> F(1) + F(3), Y |-> F(2) + F(4)]>>,
                                          [X |-> F(1), Y |-> F(2)]))]
         [] op = "q" -> [c EXCEPT !.gstack = Append(@, g)]
         [] op = "Q" -> Restore(c)
         [] op = "BT" -> [c EXCEPT !.g.Tm = ident, !.g.Tlm = ident]
         [] op = "ET" -> c
         [] op = "T*" -> [c EXCEPT !.g = Move(g, 0, 0 - g.Tl)]
         [] op = "Tc" -> IF n # 1 THEN Bad ELSE [c EXCEPT !.g.Tc = F(1)]
         [] op = "TD" ->
              IF n # 2 THEN Bad ELSE [c EXCEPT !.g = Move([g EXCEPT !.Tl = 0 - F(2)], F(1), F(2))]
         [] op = "Td" -> IF n # 2 THEN Bad ELSE [c EXCEPT !.g = Move(g, F(1), F(2))]
         [] op = "Tf" ->
              IF n # 2 THEN Bad
              ELSE [c EXCEPT !.g.Tf = [name |-> IF args[1].k = "name" THEN args[1].nm ELSE "",
                                       w |-> 1000, enc |-> TRUE],
                             !.g.Tfs = F(2)]
         [] op = "\"" ->
              IF n # 3 THEN Bad
              ELSE MoveShow([c EXCEPT !.g.Tw = F(1), !.g.Tc = F(2)], args[3])
         [] op = "'" ->
              IF n # 1 THEN Bad ELSE MoveShow(c, args[1])
         [] op = "Tj" -> IF n # 1 THEN Bad ELSE showText(c, args[1])
         [] op = "TJ" ->
              IF n < 1 THEN Bad
              ELSE ShowArray(c, IF args[1].k = "array" THEN args[1].a ELSE <<>>, 1)
         [] op = "TL" -> IF n # 1 THEN Bad ELSE [c EXCEPT !.g.Tl = F(1)]
         [] op = "Tm" -> IF n # 6 THEN Bad ELSE [c EXCEPT !.g.Tm = Six, !.g.Tlm = Six]
         [] op = "Tr" -> IF n # 1 THEN Bad ELSE [c EXCEPT !.g.Tmode = F(1)]
         [] op = "Ts" -> IF n # 1 THEN Bad ELSE [c EXCEPT !.g.Trise = F(1)]
         [] op = "Tw" -> IF n # 1 THEN Bad ELSE [c EXCEPT !.g.Tw = F(1)]
         [] op = "Tz" -> IF n # 1 THEN Bad ELSE [c EXCEPT !.g.Th = F(1) \div 100]
         [] op = "w" -> IF n < 1 THEN Bad ELSE [c EXCEPT !.g.LineWidth = F(1)]
         [] op = "j" -> IF n < 1 THEN Bad ELSE [c EXCEPT !.g.JoinStyle = F(1)]
         [] op = "J" -> IF n < 1 THEN Bad ELSE [c EXCEPT !.g.CapStyle = F(1)]
         [] op \in {"W", "Do", "W*", "f*", "", "d", "n", "RG", "S", "rg", "M", "h", "b", "cs",
                    "scn", "f", "g", "G", "CS", "BMC", "BDC", "EMC", "i", "s"} -> c
         [] OTHER -> Bad

\* the operands a content stream puts before op: the operands the operator
\* takes in a well-formed stream, and for some operators too few of them
Operands(op) ==
    LET N(s) == [i \in DOMAIN s |-> IntObj(s[i])]
        str == [k |-> "string", s |-> <<32, 65, 32>>]
    IN CASE op \in {"cm", "Tm", "c"} -> {N(<<1, 0, 0, 1, 2, 3>>), N(<<2, 0, 0, 2, 0, 0>>), N(<<1, 2>>)}
         [] op \in {"re", "v", "y"} -> {N(<<1, 2, 3, 4>>), N(<<1>>)}
         [] op \in {"l", "m", "Td", "TD"} -> {N(<<1, 2>>), <<>>}
         [] op \in {"Tc", "TL", "Tr", "Ts", "Tw", "Tz", "w", "j", "J"} -> {N(<<200>>), <<>>}
         [] op = "Tf" -> {<<NameObj("F1"), IntObj(2)>>, <<NameObj("F1")>>}
         [] op \in {"Tj", "'"} -> {<<str>>, <<>>}
         [] op = "\"" -> {<<IntObj(1), IntObj(2), str>>, <<str>>}
         [] op = "TJ" -> {<<ArrayObj(<<str, IntObj(1000), str>>)>>}
         [] op \in {"gs", "Do", "cs", "CS", "BMC"} -> {<<NameObj("N0")>>}
         [] op \in {"rg", "RG", "sc", "SC"} -> {N(<<1, 0, 0>>)}
         [] op \in {"k", "K"} -> {N(<<1, 0, 0, 0>>)}
         [] OTHER -> {<<>>}

\* one operator of the stream: any operator of the switch, any other
\* operator of the PDF format, or a word that is no operator
ContentOp ==
    /\ pageContent.st = "ok"
    /\ pageContent.strm <= pageContent.streams
    /\ pageContent.n < MaxOps
    /\ \E op \in {"y", "v", "c", "cm", "gs", "l", "m", "re", "q", "Q", "BT", "ET", "T*", "Tc",
                  "TD", "Td", "Tf", "\"", "'", "Tj", "TJ", "TL", "Tm", "Tr", "Ts", "Tw", "Tz",
                  "W", "Do", "W*", "f*", "", "d", "w", "j", "J", "n", "RG", "S", "rg", "M", "h",
                  "b", "cs", "scn", "f", "g", "G", "CS", "BMC", "BDC", "EMC", "i", "s",
                  "k", "K", "sc", "SC", "SCN", "MP", "DP", "BI", "ID", "EI", "sh", "B", "xx"} :
          \E args \in Operands(op) :
              pageContent' = [Operator(pageContent, op, args) EXCEPT !.n = @ + 1]
    /\ UNCHANGED <<file, png, mention, pc, table, xref, prevoff, key, useAES, err, pwcalls, tried,
                   cur, out, hist, font, pdfbuffer>>

\* the loop over streams goes on to the next stream: g, gstack, text and
\* paths are declared before the loop and stay
NextStreamOp ==
    /\ pageContent.st = "ok"
    /\ pageContent.strm < pageContent.streams
    /\ pageContent' = [pageContent EXCEPT !.strm = @ + 1]
    /\ UNCHANGED <<file, png, mention, pc, table, xref, prevoff, key, useAES, err, pwcalls, tried,
                   cur, out, hist, font, pdfbuffer>>

\* Content called on a page whose Contents is one stream of Length 0 or 100,
\* or an array of two streams of Length 0
SpecContent ==
    /\ pageContent \in {NoContent(0), NoContent(100), [NoContent(0) EXCEPT !.streams = 2]}
    /\ file = BareFile("table", TRUE)
    /\ xref = <<ZeroXref>>
    /\ key = NoKey
    /\ useAES = FALSE
    /\ pc = "opened"
    /\ mention = [x \in 0..MaxId |-> NoMention]
    /\ table = [st |-> "ok", tab |-> xref, size |-> Len(xref), avail |-> 0]
    /\ prevoff = 0
    /\ err = "nil"
    /\ pwcalls = <<>>
    /\ tried = <<>>
    /\ cur = ZeroValue
    /\ out = NoOut
    /\ hist = NoOut
    /\ png = NoPng
    /\ font = [st |-> "none"]
    /\ pdfbuffer = [st |-> "none"]
    /\ [][ContentOp \/ NextStreamOp]_vars

----------------------------------------------------------------------------
(* Fonts. font.V is the font dictionary a Font is built from, with direct   *)
(* objects; font.wg is the width grabber FontFromValue chose. A dictionary  *)
(* of a font is [k |-> "dict", m |-> a record of its entries].              *)

MaxCode == 3        \* largest character code a caller asks the width of

\* Key and Index as font.go calls them, with one result: the entry at, or
\* Null where there is none
Sub(obj, at) ==
    CASE obj.k = "dict" -> IF at \in DOMAIN obj.m THEN obj.m[at] ELSE Nil
      [] obj.k = "array" -> IF at + 1 \in DOMAIN obj.a THEN obj.a[at + 1] ELSE Nil
      [] OTHER -> Nil

\* the loop of CreateCIDWidthGrabber over w from index i on; the loop over
\* an array of widths adds 1 to i and never to j, so that it ends only when
\* the array is empty
RECURSIVE WidthRanges(_, _, _)
WidthRanges(w, i, cw) ==
    IF i >= (IF w.k = "array" THEN Len(w.a) ELSE 0) THEN cw
    ELSE IF Sub(w, i + 1).k = "array"
    THEN IF Len(Sub(w, i + 1).a) > 0 THEN [cw EXCEPT !.st = "diverge"]
         ELSE WidthRanges(w, i + 2,
                  [cw EXCEPT !.wmap1 = Append(@, [start |-> uint32(IntOr0(Sub(w, i))),
                                                  end |-> uint32(IntOr0(Sub(w, i))),
                                                  widths |-> <<>>])])
    ELSE WidthRanges(w, i + 3,
             [cw EXCEPT !.wmap2 = Append(@, [start |-> uint32(IntOr0(Sub(w, i))),
                                             end |-> uint32(IntOr0(Sub(w, i + 1))),
                                             width |-> IntOr0(Sub(w, i + 2))])])

\* (wg, ok): it goes on only when DescendantFonts has Kind 0, which is Null,
\* and then only when W of its first element has Kind 0
CreateCIDWidthGrabber(V) ==
    IF Sub(V, "DescendantFonts").k # "null" THEN [ok |-> FALSE]
    ELSE IF Sub(Sub(Sub(V, "DescendantFonts"), 0), "W").k # "null" THEN [ok |-> FALSE]
    ELSE WidthRanges(Sub(Sub(Sub(V, "DescendantFonts"), 0), "W"), 0,
                     [ok |-> TRUE, st |-> "ok", kind |-> "cid", wmap1 |-> <<>>, wmap2 |-> <<>>,
                      defaultwidth |-> IntOr0(Sub(Sub(Sub(V, "DescendantFonts"), 0), "DW"))])

CreateDefaultWidthGrabber(V) ==
    [ok |-> TRUE, st |-> "ok", kind |-> "default",
     first |-> uint32(IntOr0(Sub(V, "FirstChar"))), last |-> uint32(IntOr0(Sub(V, "LastChar"))),
     widths |-> IF Sub(V, "Widths").k = "array"
                THEN [i \in DOMAIN Sub(V, "Widths").a |-> IntOr0(Sub(V, "Widths").a[i])]
                ELSE <<>>]

\* the width grabber of FontFromValue(V)
FontFromValue(V) ==
    IF CreateCIDWidthGrabber(V).ok THEN CreateCIDWidthGrabber(V) ELSE CreateDefaultWidthGrabber(V)

\* Width of either width grabber; an index beyond the widths is a panic
Width(wg, code) ==
    LET in1 == {x \in DOMAIN wg.wmap1 : code >= wg.wmap1[x].start /\ code < wg.wmap1[x].end}
        in2 == {x \in DOMAIN wg.wmap2 : code >= wg.wmap2[x].start /\ code < wg.wmap2[x].end}
        lo(S) == CHOOSE x \in S : \A y \in S : x <= y
        At(ws, x) == IF x + 1 \in DOMAIN ws THEN [st |-> "ok", n |-> ws[x + 1]]
                     ELSE [st |-> "panic", n |-> 0]
    IN IF wg.kind = "default"
       THEN IF code < wg.first \/ code >= wg.last THEN [st |-> "ok", n |-> 0]
            ELSE At(wg.widths, code - wg.first)
       ELSE IF in1 # {} THEN At(wg.wmap1[lo(in1)].widths, code - wg.wmap1[lo(in1)].start)
       ELSE IF in2 # {} THEN [st |-> "ok", n |-> wg.wmap2[lo(in2)].width]
       ELSE [st |-> "ok", n |-> wg.defaultwidth]

FontFromValueOp ==
    /\ font.st = "value"
    /\ font' = [font EXCEPT !.wg = FontFromValue(font.V),
                            !.st = IF FontFromValue(font.V).st = "ok" THEN "built" ELSE "diverged"]
    /\ UNCHANGED <<file, png, mention, pc, table, xref, prevoff, key, useAES, err, pwcalls, tried,
                   cur, out, hist, pageContent, pdfbuffer>>

WidthOp ==
    /\ font.st = "built"
    /\ \E code \in 0..MaxCode :
          out' = [NoOut EXCEPT !.op = "width", !.i = code, !.st = Width(font.wg, code).st,
                               !.n = Width(font.wg, code).n]
    /\ UNCHANGED <<file, png, mention, pc, table, xref, prevoff, key, useAES, err, pwcalls, tried,
                   cur, hist, pageContent, font, pdfbuffer>>

\* fonts with and without DescendantFonts, whose first element has no W, a
\* W with a list of widths, with a range, or with an empty list, and has DW
\* or not; with and without Widths, FirstChar and LastChar
SpecFont ==
    /\ \E df \in {Nil} \cup
                {ArrayObj(<<[k |-> "dict", m |-> d]>>) :
                    d \in {[DW |-> IntObj(1000)],
                           [W |-> ArrayObj(<<IntObj(1), ArrayObj(<<IntObj(500), IntObj(600)>>)>>)],
                           [W |-> ArrayObj(<<IntObj(1), ArrayObj(<<IntObj(500), IntObj(600)>>)>>),
                            DW |-> IntObj(1000)],
                           [W |-> ArrayObj(<<IntObj(1), IntObj(3), IntObj(700)>>),
                            DW |-> IntObj(1000)],
                           [W |-> ArrayObj(<<IntObj(2), ArrayObj(<<>>), IntObj(0), IntObj(1),
                                             IntObj(700)>>),
                            DW |-> IntObj(1000)]}},
          ws \in {Nil, ArrayObj(<<IntObj(300), IntObj(400)>>)},
          fc \in {0, 1}, lc \in {MaxCode - 1, MaxCode + 1} :
          font = [st |-> "value", wg |-> [st |-> "none"],
                  V |-> [k |-> "dict",
                         m |-> [DescendantFonts |-> df, Widths |-> ws, FirstChar |-> IntObj(fc),
                                LastChar |-> IntObj(lc)]]]
    /\ file = BareFile("table", TRUE)
    /\ xref = <<ZeroXref>>
    /\ key = NoKey
    /\ useAES = FALSE
    /\ pc = "opened"
    /\ mention = [x \in 0..MaxId |-> NoMention]
    /\ table = [st |-> "ok", tab |-> xref, size |-> Len(xref), avail |-> 0]
    /\ prevoff = 0
    /\ err = "nil"
    /\ pwcalls = <<>>
    /\ tried = <<>>
    /\ cur = ZeroValue
    /\ out = NoOut
    /\ hist = NoOut
    /\ png = NoPng
    /\ pageContent = [st |-> "none"]
    /\ pdfbuffer = [st |-> "none"]
    /\ [][FontFromValueOp \/ WidthOp]_vars

----------------------------------------------------------------------------
(* cmap.Decode. font.enc is a cmap: space[n] the codespace ranges of n      *)
(* bytes, bfrange the ranges with their destinations; strings are byte      *)
(* sequences. The Text of a character is kept as the bytes of the UTF-16    *)
(* destination, and "noRune" stands for the character of noRune.            *)
(* Destinations have at most 3 bytes, so that the code whose width is       *)
(* asked stays below 2^32.                                                  *)

MaxRaw == 3         \* bytes of a string to decode

\* a <= b on Go strings: byte by byte, a prefix before what it is a prefix of
RECURSIVE StrLeq(_, _)
StrLeq(a, b) ==
    IF a = <<>> THEN TRUE
    ELSE IF b = <<>> THEN FALSE
    ELSE IF a[1] # b[1] THEN a[1] < b[1]
    ELSE StrLeq(Tail(a), Tail(b))

\* the characters Decode appends for text, which lies in a codespace range
\* of its length: after the branch of an Array destination no continue
\* follows, so the append after the branches runs as well
Mapped(m, text) ==
    LET hits == {x \in DOMAIN m.bfrange : /\ Len(m.bfrange[x].lo) = Len(text)
                                        /\ StrLeq(m.bfrange[x].lo, text)
                                        /\ StrLeq(text, m.bfrange[x].hi)}
        bf == m.bfrange[CHOOSE x \in hits : \A y \in hits : x <= y]
        q == (text[Len(text)] - bf.lo[Len(bf.lo)]) % 256
        s == IF bf.lo = text THEN bf.dst.s
             ELSE [bf.dst.s EXCEPT ![Len(bf.dst.s)] = (@ + q) % 256]
        CodeOf[i \in 0..3] == IF i = 0 \/ i > Len(s) THEN 0 ELSE CodeOf[i - 1] * 256 + s[i]
        NoRune == [Text |-> "noRune", Width |-> 0]
    IN IF hits = {} THEN [st |-> "ok", r |-> <<NoRune>>]
       ELSE IF bf.dst.k = "string"
       THEN IF bf.lo # text /\ bf.dst.s = <<>> THEN [st |-> "panic", r |-> <<>>]
            ELSE [st |-> "ok",
                  r |-> <<[Text |-> s, Width |-> Width(m.wg, CodeOf[Len(s)]).n]>>]
       ELSE IF bf.dst.k = "array"
       THEN [st |-> "ok",
             r |-> <<[Text |-> IF Sub(bf.dst, q).k = "string" THEN Sub(bf.dst, q).s ELSE <<>>,
                      Width |-> Width(m.wg, text[Len(text)]).n], NoRune>>]
       ELSE [st |-> "ok", r |-> <<NoRune>>]

\* Decode(raw) after the characters acc.r: acc.codes are the codes taken off
\* the front of raw so far, one for every round of the loop Parse
RECURSIVE Decode(_, _, _)
Decode(m, raw, acc) ==
    LET ns == {n \in 1..4 : /\ n <= Len(raw)
                            /\ \E x \in DOMAIN m.space[n] :
                                  /\ StrLeq(m.space[n][x][1], SubSeq(raw, 1, n))
                                  /\ StrLeq(SubSeq(raw, 1, n), m.space[n][x][2])}
        n == IF ns = {} THEN 1 ELSE CHOOSE x \in ns : \A y \in ns : x <= y
        got == IF ns = {} THEN [st |-> "ok", r |-> <<[Text |-> "noRune", Width |-> 0]>>]
               ELSE Mapped(m, SubSeq(raw, 1, n))
    IN IF raw = <<>> \/ acc.st # "ok" THEN acc
       ELSE Decode(m, SubSeq(raw, n + 1, Len(raw)),
                   [st |-> got.st, r |-> acc.r \o got.r,
                    codes |-> Append(acc.codes, SubSeq(raw, 1, n))])

DecodeOp ==
    /\ font.st = "cmap"
    /\ \E len \in 0..MaxRaw : \E raw \in [1..len -> 1..3] :
          out' = [NoOut EXCEPT !.op = "decode",
                               !.l = <<raw, Decode(font.enc, raw,
                                                   [st |-> "ok", r |-> <<>>, codes |-> <<>>])>>]
    /\ UNCHANGED <<file, png, mention, pc, table, xref, prevoff, key, useAES, err, pwcalls, tried,
                   cur, hist, pageContent, font, pdfbuffer>>

\* cmaps with a codespace of one byte or of two bytes or none, and a bfrange
\* whose destination is a string, an array of strings or a number
SpecCMap ==
    /\ \E sp \in {<<<<>>, <<>>, <<>>, <<>>>>, <<<<<<<<1>>, <<2>>>>>>, <<>>, <<>>, <<>>>>,
                 <<<<>>, <<<<<<1, 1>>, <<1, 3>>>>>>, <<>>, <<>>>>},
          dst \in {[k |-> "string", s |-> <<0, 65>>],
                  ArrayObj(<<[k |-> "string", s |-> <<0, 65>>], [k |-> "string", s |-> <<0, 66>>]>>),
                  IntObj(0)} :
          font = [st |-> "cmap",
                  enc |-> [space |-> sp, wg |-> CreateCIDWidthGrabber([k |-> "dict", m |-> [DW |-> Nil]]),
                           bfrange |-> <<[lo |-> <<1>>, hi |-> <<2>>, dst |-> dst],
                                         [lo |-> <<1, 1>>, hi |-> <<1, 2>>, dst |-> dst]>>]]
    /\ file = BareFile("table", TRUE)
    /\ xref = <<ZeroXref>>
    /\ key = NoKey
    /\ useAES = FALSE
    /\ pc = "opened"
    /\ mention = [x \in 0..MaxId |-> NoMention]
    /\ table = [st |-> "ok", tab |-> xref, size |-> Len(xref), avail |-> 0]
    /\ prevoff = 0
    /\ err = "nil"
    /\ pwcalls = <<>>
    /\ tried = <<>>
    /\ cur = ZeroValue
    /\ out = NoOut
    /\ hist = NoOut
    /\ png = NoPng
    /\ pageContent = [st |-> "none"]
    /\ pdfbuffer = [st |-> "none"]
    /\ [][DecodeOp]_vars

----------------------------------------------------------------------------
(* The lexer: pdfbuffer reads tokens from an io.Reader through a buffer.   *)
(* Bytes are their ASCII codes.  The reader hands over everything it has   *)
(* left in one Read (the inputs are shorter than the 4096 bytes of the     *)
(* buffer) and then answers 0, io.EOF.                                     *)

MaxBody == 4        \* bytes of input after the opening delimiter

\* the bytes inputs are made of: space ( ) 1 < > A B C \ n
InputBytes == {32, 40, 41, 49, 60, 62, 65, 66, 67, 92, 110}

newPdfBuffer(input, eofAllowed) ==
    [st |-> "ok", input |-> input, r |-> input, buf |-> <<>>, pos |-> 0,
     allowEOF |-> eofAllowed, eof |-> FALSE]

\* errorf panics with the formatted error
errorf(b, msg) == [st |-> "panic", e |-> msg, tok |-> Nil, b |-> [b EXCEPT !.st = "panic"]]

reload(b) ==
    IF b.r = <<>>
    THEN IF b.allowEOF
         THEN [b EXCEPT !.buf = <<>>, !.pos = 0, !.eof = TRUE]
         ELSE [b EXCEPT !.buf = <<>>, !.pos = 0, !.st = "panic"]
    ELSE [b EXCEPT !.buf = b.r, !.r = <<>>, !.pos = 0]

\* a line feed stands in for the byte the input no longer has
readByte(b) ==
    LET l == IF b.pos >= Len(b.buf) THEN reload(b) ELSE b IN
    IF l.st = "panic" THEN [c |-> 0, b |-> l]
    ELSE IF l.pos >= Len(l.buf) THEN [c |-> 10, b |-> l]
    ELSE [c |-> l.buf[l.pos + 1], b |-> [l EXCEPT !.pos = @ + 1]]

unreadByte(b) == IF b.pos > 0 THEN [b EXCEPT !.pos = @ - 1] ELSE b

isSpace(c) == c \in {0, 9, 10, 12, 13, 32}

unhex(c) ==
    IF 48 <= c /\ c <= 57 THEN c - 48
    ELSE IF 97 <= c /\ c <= 102 THEN c - 97 + 10
    ELSE IF 65 <= c /\ c <= 70 THEN c - 65 + 10
    ELSE 0 - 1

\* unhex(c)<<4 | unhex(c2) on two's complement ints: -16 | d and d<<4 | -1
\* are negative, so the result is negative when either byte is no hex digit
HexPair(c, c2) ==
    IF unhex(c) < 0 \/ unhex(c2) < 0 THEN 0 - 1 ELSE unhex(c) * 16 + unhex(c2)

\* Once the reader has answered io.EOF in allowEOF mode every readByte
\* returns the line feed again and leaves the buffer as it is.
Exhausted(b) == b.eof /\ b.pos >= Len(b.buf) /\ b.r = <<>>

Diverges(b) == [st |-> "diverge", e |-> "nil", tok |-> Nil, b |-> b]

Reading(b) == [st |-> "panic", e |-> "malformed PDF: reading", tok |-> Nil, b |-> b]

RECURSIVE HexLoop(_, _)
RECURSIVE HexLoop2(_, _, _)
HexSecond(rb, tmp, c) ==
    IF rb.b.st = "panic" THEN Reading(rb.b)
    ELSE IF isSpace(rb.c) THEN HexLoop2(rb.b, tmp, c)
    ELSE IF HexPair(c, rb.c) < 0 THEN errorf(rb.b, "malformed hex string")
    ELSE HexLoop(rb.b, Append(tmp, HexPair(c, rb.c)))

\* Loop2: the second digit, skipping white space
HexLoop2(b, tmp, c) ==
    IF Exhausted(b) THEN Diverges(b) ELSE HexSecond(readByte(b), tmp, c)

HexFirst(rb, tmp) ==
    IF rb.b.st = "panic" THEN Reading(rb.b)
    ELSE IF rb.c = 62 THEN [st |-> "ok", e |-> "nil", tok |-> [k |-> "string", s |-> tmp], b |-> rb.b]
    ELSE IF isSpace(rb.c) THEN HexLoop(rb.b, tmp)
    ELSE HexLoop2(rb.b, tmp, rb.c)

\* Loop: the first digit or the closing >
HexLoop(b, tmp) ==
    IF Exhausted(b) THEN Diverges(b) ELSE HexFirst(readByte(b), tmp)

readHexString(b) == HexLoop(b, <<>>)

RECURSIVE LitLoop(_, _, _)
OctalDone(b, tmp, depth, x) ==
    IF x > 255 THEN errorf(b, "invalid octal escape") ELSE LitLoop(b, Append(tmp, x), depth)

OctalThird(rb, tmp, depth, x) ==
    IF rb.b.st = "panic" THEN Reading(rb.b)
    ELSE IF rb.c < 48 \/ rb.c > 55 THEN OctalDone(unreadByte(rb.b), tmp, depth, x)
    ELSE OctalDone(rb.b, tmp, depth, x * 8 + (rb.c - 48))

OctalSecond(rb, tmp, depth, x) ==
    IF rb.b.st = "panic" THEN Reading(rb.b)
    ELSE IF rb.c < 48 \/ rb.c > 55 THEN OctalDone(unreadByte(rb.b), tmp, depth, x)
    ELSE OctalThird(readByte(rb.b), tmp, depth, x * 8 + (rb.c - 48))

AfterCR(rb, tmp, depth) ==
    IF rb.b.st = "panic" THEN Reading(rb.b)
    ELSE LitLoop(IF rb.c # 10 THEN unreadByte(rb.b) ELSE rb.b, tmp, depth)

\* the byte after a backslash
Escape(rb, tmp, depth) ==
    IF rb.b.st = "panic" THEN Reading(rb.b)
    ELSE CASE rb.c = 110 -> LitLoop(rb.b, Append(tmp, 10), depth)
           [] rb.c = 114 -> LitLoop(rb.b, Append(tmp, 13), depth)
           [] rb.c = 98 -> LitLoop(rb.b, Append(tmp, 8), depth)
           [] rb.c = 116 -> LitLoop(rb.b, Append(tmp, 9), depth)
           [] rb.c = 102 -> LitLoop(rb.b, Append(tmp, 12), depth)
           [] rb.c \in {40, 41, 92} -> LitLoop(rb.b, Append(tmp, rb.c), depth)
           [] rb.c = 13 -> AfterCR(readByte(rb.b), tmp, depth)
           [] rb.c = 10 -> LitLoop(rb.b, tmp, depth)
           [] 48 <= rb.c /\ rb.c <= 55 -> OctalSecond(readByte(rb.b), tmp, depth, rb.c - 48)
           [] OTHER -> errorf(rb.b, "invalid escape sequence")

LitByte(rb, tmp, depth) ==
    IF rb.b.st = "panic" THEN Reading(rb.b)
    ELSE CASE rb.c = 40 -> LitLoop(rb.b, Append(tmp, rb.c), depth + 1)
           [] rb.c = 41 /\ depth = 1 ->
                [st |-> "ok", e |-> "nil", tok |-> [k |-> "string", s |-> tmp], b |-> rb.b]
           [] rb.c = 41 /\ depth # 1 -> LitLoop(rb.b, Append(tmp, rb.c), depth - 1)
           [] rb.c = 92 -> Escape(readByte(rb.b), tmp, depth)
           [] OTHER -> LitLoop(rb.b, Append(tmp, rb.c), depth)

LitLoop(b, tmp, depth) ==
    IF Exhausted(b) THEN Diverges(b) ELSE LitByte(readByte(b), tmp, depth)

readLiteralString(b) == LitLoop(b, <<>>, 1)

AfterLess(rb) ==
    IF rb.b.st = "panic" THEN Reading(rb.b)
    ELSE IF rb.c = 60 THEN [st |-> "ok", e |-> "nil", tok |-> [k |-> "keyword", s |-> <<60, 60>>], b |-> rb.b]
    ELSE readHexString(unreadByte(rb.b))

\* readToken on an input that opens with < or with (
TokenAt(rb) ==
    IF rb.b.st = "panic" THEN Reading(rb.b)
    ELSE IF rb.c = 60 THEN AfterLess(readByte(rb.b))
    ELSE readLiteralString(rb.b)

readToken(b) == TokenAt(readByte(b))

TokenRead(res) ==
    /\ pdfbuffer' = res.b
    /\ out' = [NoOut EXCEPT !.op = "token", !.st = res.st, !.e = res.e, !.x = res.tok]

readTokenOp ==
    /\ pdfbuffer.st = "ok"
    /\ out.op = "none"
    /\ TokenRead(readToken(pdfbuffer))
    /\ UNCHANGED <<file, png, mention, pc, table, xref, prevoff, key, useAES, err, pwcalls, tried,
                   cur, hist, pageContent, font>>

\* inputs that open a hex string or a literal string, read in normal mode
\* and in allowEOF mode
SpecLexer ==
    /\ \E len \in 0..MaxBody : \E body \in [1..len -> InputBytes] :
       \E opener \in {40, 60}, eofAllowed \in BOOLEAN :
          pdfbuffer = newPdfBuffer(<<opener>> \o body, eofAllowed)
    /\ file = BareFile("table", TRUE)
    /\ xref = <<ZeroXref>>
    /\ key = NoKey
    /\ useAES = FALSE
    /\ pc = "opened"
    /\ mention = [x \in 0..MaxId |-> NoMention]
    /\ table = [st |-> "ok", tab |-> xref, size |-> Len(xref), avail |-> 0]
    /\ prevoff = 0
    /\ err = "nil"
    /\ pwcalls = <<>>
    /\ tried = <<>>
    /\ cur = ZeroValue
    /\ out = NoOut
    /\ hist = NoOut
    /\ png = NoPng
    /\ pageContent = [st |-> "none"]
    /\ font = [st |-> "none"]
    /\ [][readTokenOp]_vars

----------------------------------------------------------------------------
(* Walks over the object graph: Page_OLD down the page tree, buildOutline  *)
(* along the First and Next links of the outline.  Both use the Value API  *)
(* with one result: a call that fails gives the null Value.                *)

KeyValue(v, nm) == Key(v, nm, MaxFuel).v

\* Key("Type").CoerceString("") and Key("Type").Name(): the name, else ""
TypeName(v) == IF KeyValue(v, "Type").data.k = "name" THEN KeyValue(v, "Type").data.nm ELSE ""

\* Key("Count").CoerceInt64(def) and Key("Count").Int64(): the integer, else def
CountOr(v, def) == IF KeyValue(v, "Count").data.k = "int" THEN KeyValue(v, "Count").data.n ELSE def

RECURSIVE PageSearch(_, _, _)
RECURSIVE KidsFrom(_, _, _, _)
\* one round of the loop over kids
KidAt(kids, i, num, seen, kid) ==
    IF kid.st # "ok" THEN Ok(ZeroValue)
    ELSE IF TypeName(kid.v) = "Pages"
    THEN IF num < CountOr(kid.v, 0) THEN PageSearch(kid.v, num, seen)
         ELSE KidsFrom(kids, i + 1, num - CountOr(kid.v, 0), seen)
    ELSE IF TypeName(kid.v) = "Page"
    THEN IF num = 0 THEN Ok(kid.v) ELSE KidsFrom(kids, i + 1, num - 1, seen)
    ELSE KidsFrom(kids, i + 1, num, seen)

KidsFrom(kids, i, num, seen) ==
    IF i >= Len_(kids) THEN Ok(ZeroValue)
    ELSE KidAt(kids, i, num, seen, Index(kids, i, MaxFuel))

SearchKids(kids, num, seen) ==
    IF kids.st # "ok" THEN Ok(ZeroValue) ELSE KidsFrom(kids.v, 0, num, seen)

\* a round of the loop Search at node with num pages still to skip; seen
\* holds the rounds begun so far: the file does not change, so a round
\* begun a second time at the same node with the same num repeats for ever
PageSearch(node, num, seen) ==
    IF <<node, num>> \in seen THEN Diverge
    ELSE IF TypeName(node) # "Pages" THEN Ok(ZeroValue)
    ELSE IF CountOr(node, 0 - 1) < num THEN Ok(ZeroValue)
    ELSE SearchKids(Key(node, "Kids", MaxFuel), num, seen \cup {<<node, num>>})

SearchFrom(pages, num) ==
    IF pages.st # "ok" THEN Ok(ZeroValue) ELSE PageSearch(pages.v, num, {})

Page_OLD(num) == SearchFrom(KeyOf(Key(Trailer, "Root", MaxFuel), "Pages", MaxFuel), num - 1)

RECURSIVE buildOutline(_, _)
RECURSIVE Children(_, _, _)
ChildBuilt(child, path, acc, sub) ==
    IF sub.st # "ok" THEN [st |-> sub.st, l |-> acc]
    ELSE Children(KeyValue(child, "Next"), path \cup {child}, Append(acc, sub.x))

\* the loop over the children from child on; path holds the entries whose
\* buildOutline has not returned and the children the loops on the way
\* have passed: each of them leads to child again through First and Next,
\* so the walk that reaches one of them a second time never ends
Children(child, path, acc) ==
    IF Kind(child) # "Dict" THEN [st |-> "ok", l |-> acc]
    ELSE IF child \in path THEN [st |-> "diverge", l |-> acc]
    ELSE ChildBuilt(child, path, acc, buildOutline(child, path \cup {child}))

Titled(title, kids) == [st |-> kids.st, x |-> [Title |-> title, Child |-> kids.l]]

buildOutline(entry, path) ==
    Titled(TextOf(KeyValue(entry, "Title")), Children(KeyValue(entry, "First"), path, <<>>))

Outline ==
    buildOutline(KeyValue(KeyValue(Trailer, "Root"), "Outlines"),
                 {KeyValue(KeyValue(Trailer, "Root"), "Outlines")})

PageOldOp ==
    /\ pc = "opened"
    /\ \E num \in 0..(MaxPages + 1) :
          Returned([NoOut EXCEPT !.op = "page_old", !.i = num], Page_OLD(num))
    /\ UNCHANGED hist
    /\ Frame

OutlineOp ==
    /\ pc = "opened"
    /\ out' = [NoOut EXCEPT !.op = "outline", !.st = Outline.st, !.l = <<Outline.x>>]
    /\ pc' = PcAfter(Outline.st)
    /\ UNCHANGED <<cur, hist>>
    /\ Frame

\* a catalog (object 1); a Pages root (2) over an inner Pages node (3) and a
\* Page leaf (4), the kid of the inner node being the leaf or the root; an
\* outline root (5) whose First is entry 6, the Next of entry 6 being
\* nothing, entry 7 or entry 6, and the First of entry 7 being nothing,
\* entry 6 or the outline root
GraphFiles ==
    LET node(c, kids) == DictObj([Type |-> NameObj("Pages"), Count |-> IntObj(c), Kids |-> ArrayObj(kids)])
        leaf == DictObj([Type |-> NameObj("Page"), Parent |-> Ref(2, 0)])
        catalog == DictObj([Type |-> NameObj("Catalog"), Pages |-> Ref(2, 0), Outlines |-> Ref(5, 0)])
        entry(t, first, next) == DictObj([Title |-> PlainStr(t, 1), First |-> first, Next |-> next])
    IN {[fmt |-> "table", grows |-> TRUE, pw |-> FALSE, tptr |-> ZeroPtr,
         trailer |-> DictMap([Root |-> Ref(1, 0)]),
         objs |-> [o \in 1..7 |->
                     ObjDef(Ptr(o, 0), CASE o = 1 -> catalog
                                         [] o = 2 -> node(c, <<Ref(3, 0), Ref(4, 0)>>)
                                         [] o = 3 -> node(1, <<kb>>)
                                         [] o = 4 -> leaf
                                         [] o = 5 -> DictObj([First |-> Ref(6, 0)])
                                         [] o = 6 -> entry("A", Absent, nx)
                                         [] OTHER -> entry("B", fb, Absent))],
         streams |-> NoObjs]
           : c \in MaxPages..(MaxPages + 1), kb \in {Ref(4, 0), Ref(2, 0)},
             nx \in {Absent, Ref(7, 0), Ref(6, 0)}, fb \in {Absent, Ref(6, 0), Ref(5, 0)}}

\* a Reader opened on a file of GraphFiles, every object in use at its offset
SpecGraph ==
    /\ file \in GraphFiles
    /\ xref = [x \in 1..8 |->
                 IF x = 1 THEN ZeroXref
                 ELSE [ptr |-> Ptr(x - 1, 0), inStream |-> FALSE, stream |-> ZeroPtr,
                       offset |-> x - 1]]
    /\ pc = "opened"
    /\ mention = [x \in 0..MaxId |-> NoMention]
    /\ table = [st |-> "ok", tab |-> xref, size |-> Len(xref), avail |-> 0]
    /\ prevoff = 0
    /\ key = NoKey
    /\ useAES = FALSE
    /\ err = "nil"
    /\ pwcalls = <<>>
    /\ tried = <<>>
    /\ cur = ZeroValue
    /\ out = NoOut
    /\ hist = NoOut
    /\ png = NoPng
    /\ pageContent = [st |-> "none"]
    /\ font = [st |-> "none"]
    /\ pdfbuffer = [st |-> "none"]
    /\ [][PageOldOp \/ OutlineOp]_vars

----------------------------------------------------------------------------
(* C1: when the table has been built from a chain of Prev sections, the    *)
(* entry of every object id in it is the one given by the newest section   *)
(* that mentions the id, be it free, inline or compressed.                 *)
C1_NewestSectionWins ==
    pc = "xrefdone" =>
        \A x \in 0..(Len(xref) - 1) :
            x \in DOMAIN mention /\ mention[x] # NoMention
                => EntryVariant(xref[x + 1]) = mention[x]

----------------------------------------------------------------------------
(* C2: during open the password callback is called only after the empty    *)
(* password has been tried first, only with a callback given, only when    *)
(* the trailer has an Encrypt entry, and only when the attempt with the    *)
(* empty password failed with the invalid-password error.                  *)
C2_CallbackOnlyAfterEmptyRejected ==
    Len(pwcalls) > 0 =>
        /\ Len(tried) > 0
        /\ tried[1] = <<>>
        /\ file.pw
        /\ MapGet(file.trailer, "Encrypt") # Nil
        /\ err = "ErrInvalidPassword"

\* the callback was asked and its password opened the file
C2_CallbackOpened == Len(pwcalls) > 0 /\ pc = "opened" /\ key.set

(* C3: when the callback returns the empty string, that call is the last   *)
(* one, open has failed with the invalid-password error and holds no key,  *)
(* however many non-empty candidates failed before.                        *)
C3_EmptyAnswerStops ==
    \A i \in 1..Len(pwcalls) :
        pwcalls[i] = <<>> =>
            /\ i = Len(pwcalls)
            /\ pc = "failed"
            /\ err = "ErrInvalidPassword"
            /\ ~key.set

\* an empty answer after a non-empty candidate that had failed
C3_EmptyAfterCandidate ==
    /\ Len(pwcalls) >= 2
    /\ pwcalls[1] # <<>>
    /\ pwcalls[Len(pwcalls)] = <<>>

C5_NineKindsOnly ==
    (out.op \in {"resolve", "key", "index"} /\ out.st = "ok") => out.v.data.k \in NineKinds

\* a reference to an inline entry resolved to the dictionary it defines
C5_InlineResolved ==
    /\ out.op = "resolve"
    /\ out.x = Ref(1, 0)
    /\ out.st = "ok"
    /\ out.v.data.k = "dict"

(* C6: resolve on a reference whose id is at least the length of the xref  *)
(* table returns the zero Value and ErrObjectOutOfBounds, whatever the     *)
(* parent and the generation.                                              *)
C6_OutOfBoundsFails ==
    (out.op = "resolve" /\ out.x.k = "ref" /\ out.x.p.id >= Len(xref))
        => out.st = "err" /\ out.e = "ErrObjectOutOfBounds" /\ out.v = ZeroValue

\* a reference to the first id beyond the table, under a parent, was refused
C6_FirstIdBeyond ==
    /\ out.op = "resolve"
    /\ out.x.k = "ref"
    /\ out.x.p.id = Len(xref)
    /\ out.x.p.gen = MaxGen
    /\ out.par = Ptr(1, 0)
    /\ out.st = "err"

\* object id is recorded as compressed in an object stream that is an inline
\* object of Type ObjStm, does not list id and has no Extends
MissedInObjStm(ptr) ==
    /\ ptr.id < Len(xref)
    /\ xref[ptr.id + 1].ptr = ptr
    /\ xref[ptr.id + 1].inStream
    /\ xref[ptr.id + 1].stream.id < Len(xref)
    /\ LET own == xref[xref[ptr.id + 1].stream.id + 1]
       IN /\ own.ptr = xref[ptr.id + 1].stream
          /\ ~own.inStream
          /\ own.offset \in DOMAIN file.objs
          /\ file.objs[own.offset].k = "objdef"
          /\ file.objs[own.offset].dp = own.ptr
          /\ file.objs[own.offset].obj.k = "stream"
          /\ file.objs[own.offset].obj.hdr["Type"] = NameObj("ObjStm")
          /\ file.objs[own.offset].obj.hdr["Extends"] = Absent
          /\ file.objs[own.offset].obj.soff \in DOMAIN file.streams
          /\ \A i \in DOMAIN file.streams[file.objs[own.offset].obj.soff].pairs :
                file.streams[file.objs[own.offset].obj.soff].pairs[i].id # ptr.id

SameResult(rec, res) == rec.st = res.st /\ rec.e = res.e /\ rec.v = res.v

\* res is the Value v, reader reference included
SameValue(v, res) == res.st = "ok" /\ res.v = v

\* res is a Value of the parent id and the raw object of v
SameObject(v, res) == res.st = "ok" /\ res.v.ptr = v.ptr /\ res.v.data = v.data

\* two calls of resolve on the request of out, or on Probe at any distance, agree
Deterministic ==
    /\ SameResult(out, resolve(out.par, out.x, MaxFuel))
    /\ (hist.op # "none" /\ out.par = Probe.par /\ out.x = Probe.x) => SameResult(out, hist)

ValueOpNames ==
    {"kind", "bool", "int64", "float64", "name", "raw_string", "text", "key", "index", "len",
     "keys"}

(* C10: an operation of Value applied to a Null Value reports no error and *)
(* returns a Null Value or the zero value of its kind.                     *)
C10_NullPropagates ==
    (out.op \in ValueOpNames /\ Kind(out.recv) = "Null") =>
        /\ out.st = "ok"
        /\ Kind(out.v) = "Null"
        /\ out.n = 0
        /\ out.s = EmptyString
        /\ out.l = <<>>
        /\ (out.op = "bool" => ~out.b)
        /\ (out.op = "kind" => out.nm = "Null")
        /\ (out.op = "name" => out.nm = "")

----------------------------------------------------------------------------
\* a call that returned a Value other than Null and no error
NonNull(res) == res.st = "ok" /\ Kind(res.v) # "Null"

\* nm is in the list l
Listed(l, nm) == \E i \in DOMAIN l : l[i] = nm

(* C11: the list Keys returns for a Dict holds exactly the keys for which   *)
(* Key returns a Value that is not Null; a key stored with the value null  *)
(* or with a reference to a free object is not in the list.                *)
C11_KeysAreNonNullKeys ==
    (out.op = "keys" /\ Kind(out.recv) = "Dict") =>
        \A nm \in Names : Listed(out.l, nm) <=> NonNull(Key(out.recv, nm, MaxFuel))

----------------------------------------------------------------------------
\* a call of Index that was refused for its index
Refused(res) == res.st = "err" /\ res.e = "ErrNotAValidStream" /\ res.v = ZeroValue

\* a call that returned a Null Value
GaveNull(res) == res.st \in {"ok", "err"} /\ Kind(res.v) = "Null"

\* the indexes a caller can ask an array of the model for, and one beyond
Indexes == (-1)..(MaxIndex + 2)

(* C12 as stated: for an Array a and every i >= 0, Len(a) = i exactly when  *)
(* Index(a, i-1) returns without error and Index(a, i) returns Null.       *)
C12_LenIffIndexNull ==
    (out.op = "len" /\ Kind(out.recv) = "Array") =>
        \A i \in 0..(MaxIndex + 2) :
            out.n = i <=> /\ Index(out.recv, i - 1, MaxFuel).st = "ok"
                          /\ GaveNull(Index(out.recv, i, MaxFuel))

(* C12 amended: for an Array a, Index(a, i) is refused with the zero Value  *)
(* and ErrNotAValidStream exactly when i < 0 or i >= Len(a), and otherwise *)
(* returns what resolve returns for the i-th element under the parent of   *)
(* a; so Len(a) is the least i >= 0 at which Index is refused.             *)
C12_LenIsFirstRefusedIndex ==
    (out.op = "len" /\ Kind(out.recv) = "Array") =>
        \A i \in Indexes :
            /\ Refused(Index(out.recv, i, MaxFuel)) <=> (i < 0 \/ i >= out.n)
            /\ (0 <= i /\ i < out.n) =>
                   Index(out.recv, i, MaxFuel)
                       = resolve(out.recv.ptr, out.recv.data.a[i + 1], MaxFuel)

\* Len was asked of an array of two elements whose second element is null
C12_LenOfArrayWithNull ==
    /\ out.op = "len"
    /\ Kind(out.recv) = "Array"
    /\ out.n = 2
    /\ out.recv.data.a[2] = Nil

----------------------------------------------------------------------------
(* C13: NumPage returns the integer stored at Root, Pages, Count of the     *)
(* trailer: the path is applied element by element and the integer at its  *)
(* end is returned.                                                        *)
C13_NumPageIsRootPagesCount ==
    out.op = "num_page" => out.n = file.objs[2].obj.m["Count"].n

----------------------------------------------------------------------------
\* the Count of the Pages node is the number of Page leaves below it
CountsMatch ==
    /\ file.objs[2].obj.m["Type"] = NameObj("Pages")
    /\ file.objs[2].obj.m["Count"] = IntObj(Len(file.objs[2].obj.m["Kids"].a))

(* C14: in a page tree whose Counts match, Page(n) for 1 <= n <= Count      *)
(* returns the n-th Page leaf in depth-first order, and Page(n) for any     *)
(* other n returns a null Page.                                            *)
C14_PageIsNthLeaf ==
    (out.op = "page" /\ CountsMatch) =>
        /\ out.st = "ok"
        /\ IF 1 <= out.i /\ out.i <= file.objs[2].obj.m["Count"].n
           THEN out.v = Value(TRUE, file.objs[2].obj.m["Kids"].a[out.i].p,
                              file.objs[file.objs[2].obj.m["Kids"].a[out.i].p.id].obj)
           ELSE Kind(out.v) = "Null"

----------------------------------------------------------------------------
\* the value of nm on the nearest of object id and its ancestors through
\* Parent that has it, null when none has; n bounds the height of the tree
RECURSIVE Nearest(_, _, _)
Nearest(id, nm, n) ==
    IF n = 0 THEN Nil
    ELSE IF file.objs[id].obj.m[nm] \notin {Absent, Nil} THEN file.objs[id].obj.m[nm]
    ELSE IF file.objs[id].obj.m["Parent"].k = "ref"
         THEN Nearest(file.objs[id].obj.m["Parent"].p.id, nm, n - 1)
    ELSE Nil

(* C15: MediaBox, CropBox and Resources of a page return the value of the   *)
(* key on the nearest node that has it, the page itself first and then its *)
(* ancestors through Parent.                                               *)
C15_InheritedFromNearest ==
    (out.op = "inherited" /\ out.recv.ptr.id > 2) =>
        /\ out.st = "ok"
        /\ out.v.data = Nearest(out.recv.ptr.id, out.nm, MaxPages + 2)

----------------------------------------------------------------------------
\* the rows of 1 + Columns bytes of data d, a cut last row left out
RowOf(d, c, i) == SubSeq(d, (i - 1) * (1 + c) + 1, i * (1 + c))

\* every byte of d belongs to a whole row and every row starts with 2
UpRows(d, c) ==
    /\ Len(d) % (1 + c) = 0
    /\ \A i \in 1..(Len(d) \div (1 + c)) : RowOf(d, c, i)[1] = 2

\* byte j of the payload of output row i: the sum of byte j of the payloads
\* of rows 1..i, modulo 256
RECURSIVE CumByte(_, _, _, _)
CumByte(d, c, i, j) ==
    IF i = 0 THEN 0 ELSE (CumByte(d, c, i - 1, j) + RowOf(d, c, i)[1 + j]) % 256

\* the decoded data: row after row, without the filter bytes
Decoded(d, c) ==
    [x \in 1..((Len(d) \div (1 + c)) * c) |-> CumByte(d, c, ((x - 1) \div c) + 1, ((x - 1) % c) + 1)]

(* C16: fed rows of 1 + Columns bytes that start with 2, the PNG-Up reader  *)
(* returns, however its caller sizes the buffers, the byte-wise sums       *)
(* modulo 256 of the payloads of the rows so far, without the filter       *)
(* bytes: what it has returned is always a prefix of the decoded data, and *)
(* all of it once the reader reports EOF.                                  *)
C16_PngUpIsCumulativeSum ==
    (png.st \in {"ok", "EOF"} /\ UpRows(png.input, Len(png.hist) - 1)) =>
        /\ Len(png.outb) <= Len(Decoded(png.input, Len(png.hist) - 1))
        /\ png.outb = SubSeq(Decoded(png.input, Len(png.hist) - 1), 1, Len(png.outb))
        /\ png.st = "EOF" => png.outb = Decoded(png.input, Len(png.hist) - 1)

\* two rows of two columns were read to the end, a sum wrapped around 256
\* and one read ended in the middle of a row
C16_WrappedAndSplit ==
    /\ png.st = "EOF"
    /\ png.input = <<2, 200, 1, 2, 200, 1>>
    /\ png.outb = <<200, 1, 144, 2>>
    /\ png.mid

----------------------------------------------------------------------------
\* the filters a stream header asks for, each with the entry of DecodeParms
\* at its place: the names of Filter in order, or the one name of Filter
\* with DecodeParms itself
Asked(hdr) ==
    IF hdr["Filter"].k = "array"
    THEN [i \in DOMAIN hdr["Filter"].a |->
            [name |-> hdr["Filter"].a[i].nm,
             param |-> IF hdr["DecodeParms"].k = "array" /\ i \in DOMAIN hdr["DecodeParms"].a
                       THEN hdr["DecodeParms"].a[i] ELSE Nil]]
    ELSE IF hdr["Filter"].k = "name"
    THEN <<[name |-> hdr["Filter"].nm, param |-> MapGet(hdr, "DecodeParms")]>>
    ELSE <<>>

(* C17: Reader on a stream whose filters are FlateDecode reads Length bytes *)
(* from the offset of the stream, puts the decrypting reader over them     *)
(* exactly when the file has a key, and applies the filters of Filter in   *)
(* order, the i-th with the i-th entry of DecodeParms, a single Name with  *)
(* DecodeParms itself.                                                     *)
C17_ReaderStacksFilters ==
    (/\ out.op = "reader"
     /\ Kind(out.recv) = "Stream"
     /\ \A i \in DOMAIN Asked(out.recv.data.hdr) :
            Asked(out.recv.data.hdr)[i].name = "FlateDecode") =>
        /\ out.st = "ok"
        /\ out.n = out.recv.data.hdr["Length"].n
        /\ out.b = key.set
        /\ Len(out.l) = Len(Asked(out.recv.data.hdr))
        /\ \A i \in DOMAIN out.l :
              /\ out.l[i].name = Asked(out.recv.data.hdr)[i].name
              /\ out.l[i].param = Asked(out.recv.data.hdr)[i].param

----------------------------------------------------------------------------
(* C18: the key an object's strings and streams are decrypted with has     *)
(* min(n + 5, 16) bytes, n being the length of the file key, for every     *)
(* file key of 5 to 16 bytes.                                              *)
C18_ObjectKeyLength ==
    (pc = "opened" /\ key.set /\ key.len \in 5..16) =>
        \A id \in 1..MaxId, gen \in 0..MaxGen :
            cryptKey(key, useAES, Ptr(id, gen)).len
                = IF key.len + 5 < 16 THEN key.len + 5 ELSE 16

----------------------------------------------------------------------------
(* C19: no lexical, parse or resolve failure met during open, key, index   *)
(* or reader aborts the program: the enclosing public call returns, with   *)
(* an error value where it failed.                                         *)
C19_FailuresAreReturned == pc # "panicked"

----------------------------------------------------------------------------
\* an operator run by the step just taken: it is one of ops, and the step
\* leads where the switch leads from the state before it
Ran(ops) ==
    \E op \in ops : \E args \in Operands(op) :
        pageContent' = [Operator(pageContent, op, args) EXCEPT !.n = @ + 1]

(* C20: in Content, every color-setting operator (CS cs SC SCN sc scn G g  *)
(* RG rg K k), clipping operator (W and its even-odd form), marked-content *)
(* operator (MP DP BMC BDC EMC) and image operator (BI ID EI Do) is        *)
(* accepted, and leaves the graphics state, the saved-state stack, the     *)
(* texts and the paths as they were.                                       *)
C20_IgnoredOperatorsAccepted ==
    [][Ran({"CS", "cs", "SC", "SCN", "sc", "scn", "G", "g", "RG", "rg", "K", "k", "W", "W*",
            "MP", "DP", "BMC", "BDC", "EMC", "BI", "ID", "EI", "Do"}) =>
          /\ pageContent'.st = "ok"
          /\ pageContent'.g = pageContent.g
          /\ pageContent'.gstack = pageContent.gstack
          /\ pageContent'.text = pageContent.text
          /\ pageContent'.paths = pageContent.paths]_vars

----------------------------------------------------------------------------
\* the point (x, y) in the coordinates that the matrix ctm maps to
Moved(x, y, ctm) ==
    [X |-> x * ctm[1][1] + y * ctm[2][1] + ctm[3][1],
     Y |-> x * ctm[1][2] + y * ctm[2][2] + ctm[3][2]]

\* the points of the Path that the path operator op stands for, given its
\* operands a (numbers) and the graphics state g before it
PathPoints(op, a, g) ==
    CASE op = "l" -> <<Moved(g.Px, g.Py, g.CTM), Moved(a[1], a[2], g.CTM)>>
      [] op = "re" -> <<Moved(a[1], a[2], g.CTM), Moved(a[1] + a[3], a[2] + a[4], g.CTM)>>
      [] op = "c" -> <<Moved(g.Px, g.Py, g.CTM), Moved(a[1], a[2], g.CTM),
                       Moved(a[3], a[4], g.CTM), Moved(a[5], a[6], g.CTM)>>
      [] op = "v" -> <<Moved(g.Px, g.Py, g.CTM), Moved(g.Px, g.Py, g.CTM),
                       Moved(a[1], a[2], g.CTM), Moved(a[3], a[4], g.CTM)>>
      [] op = "y" -> <<Moved(g.Px, g.Py, g.CTM), Moved(a[1], a[2], g.CTM),
                       Moved(a[3], a[4], g.CTM), Moved(a[3], a[4], g.CTM)>>

(* C21: each of the path operators l, re, c, v and y, run with all of its  *)
(* operands, appends one Path record of its kind, and the points of the    *)
(* record are the operand points and the current point transformed by the  *)
(* CTM in force.                                                           *)
C21_PathOperatorsAppend ==
    [][\A op \in {"l", "re", "c", "v", "y"} : \A args \in Operands(op) :
          (/\ Len(args) >= (CASE op = "l" -> 2 [] op = "c" -> 6 [] OTHER -> 4)
           /\ pageContent' = [Operator(pageContent, op, args) EXCEPT !.n = @ + 1]) =>
              /\ pageContent'.st = "ok"
              /\ Len(pageContent'.paths) = Len(pageContent.paths) + 1
              /\ SubSeq(pageContent'.paths, 1, Len(pageContent.paths)) = pageContent.paths
              /\ pageContent'.paths[Len(pageContent'.paths)].Kind
                    = (CASE op = "l" -> "line" [] op = "re" -> "rect" [] OTHER -> "bezier")
              /\ pageContent'.paths[Len(pageContent'.paths)].Points
                    = PathPoints(op, [i \in DOMAIN args |-> IntOr0(args[i])], pageContent.g)]_vars

(* C22: whatever the Length of the content stream, the texts of Content    *)
(* are the records of the strings shown and the paths the records that the *)
(* path operators appended: before the first operator both are empty, and  *)
(* no record is an empty placeholder.                                      *)
C22_NoPlaceholderRecords ==
    pageContent.st = "ok" =>
        /\ pageContent.n = 0 => (pageContent.text = <<>> /\ pageContent.paths = <<>>)
        /\ \A i \in DOMAIN pageContent.paths :
              pageContent.paths[i].Kind \in {"line", "rect", "bezier"}
        /\ \A i \in DOMAIN pageContent.text : pageContent.text[i].Font # ""

----------------------------------------------------------------------------
(* C26: q puts the graphics state on the saved-state stack, no operator    *)
(* but q and Q changes the depth of the stack, no operator and no change   *)
(* of stream changes a state saved on it, and Q takes the last saved state *)
(* off the stack and makes it the graphics state. So after q, a sequence   *)
(* in which q and Q are balanced, and Q, the graphics state is the one at  *)
(* the q and the stack as deep as before the q, in one stream or across    *)
(* two streams of a Contents array.                                        *)
C26_SaveRestoreBalanced ==
    [][pageContent'.st = "ok" =>
          /\ Ran({"q"}) => /\ pageContent'.gstack = Append(pageContent.gstack, pageContent.g)
                           /\ pageContent'.g = pageContent.g
          /\ Ran({"Q"}) => /\ pageContent.gstack # <<>>
                           /\ pageContent'.g = pageContent.gstack[Len(pageContent.gstack)]
                           /\ pageContent'.gstack
                                 = SubSeq(pageContent.gstack, 1, Len(pageContent.gstack) - 1)
          /\ \A i \in DOMAIN pageContent.gstack \cap DOMAIN pageContent'.gstack :
                pageContent'.gstack[i] = pageContent.gstack[i]
          /\ Len(pageContent'.gstack) # Len(pageContent.gstack) => Ran({"q", "Q"})
          /\ pageContent'.strm # pageContent.strm =>
                /\ pageContent'.g = pageContent.g
                /\ pageContent'.gstack = pageContent.gstack]_vars

\* q, l and Q have run over two streams: the line is in paths, and the
\* current point, which l moved, is the one q saved
C26_RestoredAcrossStreams ==
    /\ pageContent.st = "ok"
    /\ pageContent.n = 3
    /\ pageContent.strm = 2
    /\ pageContent.gstack = <<>>
    /\ Len(pageContent.paths) = 1
    /\ pageContent.paths[1].Kind = "line"
    /\ pageContent.paths[1].EndPoint = [X |-> 1, Y |-> 2]
    /\ pageContent.g = NoContent(0).g

----------------------------------------------------------------------------
\* the operator op run after the operators that led to c, if they ended well
Then(c, op, args) == IF c.st # "ok" THEN c ELSE Operator(c, op, args)

(* C27: from every graphics state, TD tx ty gives what TL with -ty and     *)
(* then Td tx ty give; ' s gives what T* and then Tj s give; and " aw ac s *)
(* gives what Tw aw, Tc ac and then ' s give: the same graphics state, the *)
(* same texts and paths, the same failure. The states are those in which  *)
(* the stream has an operator left to run.                                 *)
C27_CompoundTextOperators ==
    (pageContent.st = "ok" /\ pageContent.n < MaxOps) =>
        /\ \A tx \in {3}, ty \in {0 - 1, 2} :
              Operator(pageContent, "TD", <<IntObj(tx), IntObj(ty)>>)
                = Then(Operator(pageContent, "TL", <<IntObj(0 - ty)>>), "Td",
                       <<IntObj(tx), IntObj(ty)>>)
        /\ \A str \in {<<>>, <<32, 65, 32>>} :
              /\ Operator(pageContent, "'", <<StrObj(str, NoObjKey)>>)
                    = Then(Operator(pageContent, "T*", <<>>), "Tj", <<StrObj(str, NoObjKey)>>)
              /\ \A aw \in {3}, ac \in {0, 5} :
                    Operator(pageContent, "\"", <<IntObj(aw), IntObj(ac), StrObj(str, NoObjKey)>>)
                      = Then(Then(Operator(pageContent, "Tw", <<IntObj(aw)>>), "Tc", <<IntObj(ac)>>),
                             "'", <<StrObj(str, NoObjKey)>>)

\* TD, Tf and " have run: the leading is the one TD set, the spacings are
\* the ones " set, and the string of " is in the texts
C27_ShownAfterTD ==
    /\ pageContent.st = "ok"
    /\ pageContent.g.Tl = 0 - 2
    /\ pageContent.g.Tw = 1
    /\ pageContent.g.Tc = 2
    /\ Len(pageContent.text) = 1
    /\ pageContent.text[1].S # <<>>

----------------------------------------------------------------------------
\* W of the first element of DescendantFonts of the font dictionary
DescendantW(V) == Sub(Sub(Sub(V, "DescendantFonts"), 0), "W")

(* C23: a Font uses the CID width table exactly when DescendantFonts[0].W  *)
(* is an Array; otherwise it uses the table of Widths, FirstChar and       *)
(* LastChar, in which the width of a code from FirstChar up to LastChar    *)
(* (not included) is Widths[code - FirstChar], and 0 for any other code.   *)
C23_WidthTableChoice ==
    font.st \in {"built", "diverged"} =>
        /\ font.wg.kind = "cid" <=> DescendantW(font.V).k = "array"
        /\ (/\ out.op = "width"
            /\ DescendantW(font.V).k # "array"
            /\ Sub(font.V, "Widths").k = "array"
            /\ out.i - Sub(font.V, "FirstChar").n + 1 \in DOMAIN Sub(font.V, "Widths").a) =>
               out.n = IF out.i >= Sub(font.V, "FirstChar").n /\ out.i < Sub(font.V, "LastChar").n
                       THEN Sub(font.V, "Widths").a[out.i - Sub(font.V, "FirstChar").n + 1].n
                       ELSE 0

\* the width that the entries of the W array w, from index i on, list for
\* code: none, the width, or open for the last CID of a range
RECURSIVE WidthListed(_, _, _)
WidthListed(w, i, code) ==
    IF i + 1 >= Len(w) THEN [hit |-> "none", n |-> 0]
    ELSE IF w[i + 2].k = "array"
    THEN IF code >= w[i + 1].n /\ code < w[i + 1].n + Len(w[i + 2].a)
         THEN [hit |-> "width", n |-> w[i + 2].a[code - w[i + 1].n + 1].n]
         ELSE WidthListed(w, i + 2, code)
    ELSE IF code >= w[i + 1].n /\ code < w[i + 2].n THEN [hit |-> "width", n |-> w[i + 3].n]
    ELSE IF code = w[i + 2].n THEN [hit |-> "open", n |-> 0]
    ELSE WidthListed(w, i + 3, code)

(* C28: building the width table of a font whose DescendantFonts[0].W is   *)
(* an Array ends, and afterwards the width of firstCID + j is the j-th     *)
(* width of an entry (firstCID, [w0 ...]), the width of a CID in the range *)
(* of an entry (firstCID, lastCID, w) is w, and the width of a code that   *)
(* no entry covers is DW.                                                  *)
C28_CIDWidths ==
    (font.st \in {"built", "diverged"} /\ DescendantW(font.V).k = "array") =>
        /\ font.st = "built"
        /\ (out.op = "width" /\ WidthListed(DescendantW(font.V).a, 0, out.i).hit # "open") =>
              /\ out.st = "ok"
              /\ out.n = IF WidthListed(DescendantW(font.V).a, 0, out.i).hit = "width"
                         THEN WidthListed(DescendantW(font.V).a, 0, out.i).n
                         ELSE IntOr0(Sub(Sub(Sub(font.V, "DescendantFonts"), 0), "DW"))

----------------------------------------------------------------------------
\* the bytes of the codes, one after the other
RECURSIVE Joined(_)
Joined(codes) == IF codes = <<>> THEN <<>> ELSE Head(codes) \o Joined(Tail(codes))

\* the text a cmap gives the code c: the destination of the first bfrange of
\* the length of c that holds c, moved on by the place of c in the range, or
\* the element of an array destination at that place; "noRune" when no
\* codespace range or no bfrange holds c; "any" for another destination
Destination(m, c) ==
    LET held == {x \in DOMAIN m.bfrange : /\ Len(m.bfrange[x].lo) = Len(c)
                                          /\ StrLeq(m.bfrange[x].lo, c)
                                          /\ StrLeq(c, m.bfrange[x].hi)}
        bf == m.bfrange[CHOOSE x \in held : \A y \in held : x <= y]
        place == c[Len(c)] - bf.lo[Len(bf.lo)]
    IN IF ~\E x \in DOMAIN m.space[Len(c)] :
              StrLeq(m.space[Len(c)][x][1], c) /\ StrLeq(c, m.space[Len(c)][x][2])
       THEN "noRune"
       ELSE IF held = {} THEN "noRune"
       ELSE IF bf.dst.k = "string"
       THEN [bf.dst.s EXCEPT ![Len(bf.dst.s)] = @ + place]
       ELSE IF bf.dst.k = "array" THEN bf.dst.a[place + 1].s
       ELSE "any"

(* C29: Decode of a cmap ends on every string, the codes it takes are the  *)
(* bytes of the string, each once and in order, and it gives one character *)
(* for every code: the destination of the bfrange of the code's length     *)
(* that holds the code, be the destination a string or an array, and the   *)
(* character of noRune when no codespace range or no bfrange holds it.     *)
C29_DecodeOnePerCode ==
    out.op = "decode" =>
        /\ out.l[2].st = "ok"
        /\ Joined(out.l[2].codes) = out.l[1]
        /\ Len(out.l[2].r) = Len(out.l[2].codes)
        /\ \A i \in DOMAIN out.l[2].codes \cap DOMAIN out.l[2].r :
              \/ Destination(font.enc, out.l[2].codes[i]) = "any"
              \/ out.l[2].r[i].Text = Destination(font.enc, out.l[2].codes[i])

----------------------------------------------------------------------------
\* the input opens a string and has no byte that closes it
Unterminated(input) ==
    \/ input[1] = 40 /\ \A i \in 2..Len(input) : input[i] # 41
    \/ /\ input[1] = 60
       /\ Len(input) >= 2 => input[2] # 60
       /\ \A i \in 2..Len(input) : input[i] # 62

(* C24: reading a literal string or a hex string that the input does not   *)
(* terminate fails, in normal mode and in allowEOF mode; the lexer does    *)
(* not go on reading for ever once the input is exhausted.                 *)
C24_UnterminatedStringFails ==
    out.op = "token" /\ Unterminated(pdfbuffer.input) => out.st = "panic"

\* the index of the first > of the input, 0 when it has none
FirstGreater(input) ==
    IF \E i \in 1..Len(input) : input[i] = 62
    THEN CHOOSE i \in 1..Len(input) : input[i] = 62 /\ \A j \in 1..(i - 1) : input[j] # 62
    ELSE 0

\* the hex digits between < and the first >, white space left out
HexDigits(input) ==
    SelectSeq(SubSeq(input, 2, FirstGreater(input) - 1), LAMBDA c : ~isSpace(c))

\* the input is < hex digits and white space >
IsHexToken(input) ==
    /\ input[1] = 60
    /\ FirstGreater(input) > 0
    /\ \A i \in 2..(FirstGreater(input) - 1) : isSpace(input[i]) \/ unhex(input[i]) >= 0

\* the digits taken in pairs, a last single digit paired with 0
RECURSIVE Pairs(_)
Pairs(d) ==
    IF d = <<>> THEN <<>>
    ELSE IF Len(d) = 1 THEN <<unhex(d[1]) * 16>>
    ELSE <<unhex(d[1]) * 16 + unhex(d[2])>> \o Pairs(SubSeq(d, 3, Len(d)))

(* C25: a hex string token decodes, without an error, to the bytes its hex *)
(* digits give in pairs, white space between digits ignored and the last   *)
(* digit of an odd number of digits paired with 0.                         *)
C25_HexStringPairs ==
    out.op = "token" /\ IsHexToken(pdfbuffer.input)
        => /\ out.st = "ok"
           /\ out.x = [k |-> "string", s |-> Pairs(HexDigits(pdfbuffer.input))]

----------------------------------------------------------------------------
(* C30: the walk down the page tree and the walk over the outline end for  *)
(* every object graph, also when a Kids array leads back to an ancestor    *)
(* Pages node and when First or Next links of the outline form a cycle.    *)
C30_GraphWalksTerminate ==
    out.op \in {"page_old", "outline"} => out.st # "diverge"

====
